---------------------------- MODULE Spec2Model ----------------------------
(***************************************************************************)
(* A model of sentry-api-cli: the configuration loader (config-loader.ts), *)
(* the client registry and the thirteen operations (sentry-client.ts,      *)
(* sentry-utils.ts), the REPL (cli/wrapper.ts), the argument parser        *)
(* (utils/arg-parser.ts) and the headless runner (commands/runner.ts).     *)
(*                                                                         *)
(* Strings the code takes apart (a document, a URL, an error message) are  *)
(* sequences of tokens; strings it only compares are TLA+ strings.         *)
(***************************************************************************)
EXTENDS Integers, Sequences, FiniteSets, TLC

(***************************************************************************)
(* Bounds of the model.                                                    *)
(***************************************************************************)
\* Profiles declared by one generated configuration document.
MaxProfiles == 2

\* Client handles the registry constructs in one process.
MaxHandles == 2
\* Operations awaiting their remote call at the same time.
MaxInflight == 2
\* Calls of the operations by one host program.
MaxCalls == 3
\* Changes made to the configuration file while the process runs.
MaxEdits == 1
\* Input lines one interactive session is given.
MaxLines == 1

VARIABLES
  files,        \* the file system: a function from the existing paths to their content
  loadRoot,     \* the projectRoot of the last direct loadConfig call ("" before any)
  loadResult,   \* what that call returned or threw
  phase,        \* "loader" | "library" | "boot" | "repl" | "headless" | "returned" | "exited"
  wrapperConfig,  \* wrapper.config
  currentProfile, \* wrapper.currentProfile ("" for null or undefined)
  currentFormat,  \* wrapper.currentFormat
  exitCode,     \* the code the process exited with (NotExited while it runs)
  linesLeft,    \* input lines the session may still be given
  clientPool,   \* the registry: a function from the pooled profile names to their handle
  configCache,  \* the configuration the registry keeps, when it keeps one
  nextHandle,   \* the identity the next constructed handle gets
  inflight,     \* the operations suspended at their remote call
  calls,        \* operations called so far
  edits,        \* changes made to the configuration file so far
  ev,           \* what the last call, completion or clear did
  handedOut,    \* history: the handles getClient returned since the last clear
  retired,      \* history: the handles returned before the last clear
  failedFor     \* history: the profiles a getClient has failed for

vars == <<files, loadRoot, loadResult, phase, wrapperConfig, currentProfile, currentFormat,
          exitCode, linesLeft, clientPool, configCache, nextHandle, inflight, calls,
          edits, ev, handedOut, retired, failedFor>>

cliVars == <<wrapperConfig, currentProfile, currentFormat, exitCode, linesLeft>>

registryVars == <<phase, cliVars, clientPool, configCache, nextHandle, inflight, calls, edits, ev, handedOut,
                  retired, failedFor>>

(***************************************************************************)
(* Values.                                                                 *)
(***************************************************************************)
\* A literal piece of text inside a message or a scalar.
Lit(s) == <<s>>

\* JavaScript's undefined / null / "" for a name: all three are falsy.
Undefined == ""

Truthy(v) == v # <<>>

\* The string a one-token YAML scalar stands for (undefined when there is none).
ScalarOf(v) == IF v = <<>> THEN Undefined ELSE v[1]

\* The plain scalars YAML reads as numbers, not as strings.
YamlNumbers == {"8080"}
IsString(v) == ~(Len(v) = 1 /\ v[1] \in YamlNumbers)

\* String.prototype.startsWith, on a tokenised string.
StartsWith(s, prefix) == Len(s) >= 1 /\ s[1] = prefix

\* Whether an error message has `part` among its pieces.
Contains(message, part) == \E i \in 1..Len(message) : message[i] = part

\* throw new Error(message) and friends; a normal return.
Throw(name, message) == [threw |-> TRUE, name |-> name, message |-> message]
Return(value) == [threw |-> FALSE, value |-> value]

(***************************************************************************)
(* The file system.                                                        *)
(***************************************************************************)
ProjectRoots == {"/proj", "/other"}
ConfigFileName == "sentry-config.local.md"
ConnectorFileName == "sentry-connector.local.md"

\* path.join(a, b, c)
PathJoin(a, b, c) == <<a, b, c>>

Paths == {PathJoin(r, ".claude", f) : r \in ProjectRoots, f \in {ConfigFileName, ConnectorFileName}}

\* fs.existsSync, fs.readFileSync
ExistsSync(fs, path) == path \in DOMAIN fs
ReadFileSync(fs, path) == fs[path]

(***************************************************************************)
(* Documents: sequences of lines.  A line is a record [t, k, v]:           *)
(*   marker   "---"                  markerx  "---" followed by more text   *)
(*   text     "# a heading"          blank    ""                            *)
(*   top      "k: v" at column 0     name     "  k: v"   field "    k: v"   *)
(*   comment  "    # ..."            bad      "  this is not valid: [[["    *)
(* v is the scalar after the colon, tokenised; <<>> when there is none.    *)
(***************************************************************************)
Line(t, k, v) == [t |-> t, k |-> k, v |-> v]
Marker == Line("marker", "", <<>>)
MarkerX == Line("markerx", "", <<>>)
TextLine == Line("text", "", <<>>)
BlankLine == Line("blank", "", <<>>)
CommentLine == Line("comment", "", <<>>)
BadLine == Line("bad", "", <<>>)

\* Whether a line begins with the three characters "---".
StartsWithDashes(l) == l.t \in {"marker", "markerx"}

(***************************************************************************)
(* content.match(/^---\n([\s\S]*?)\n---/): the first line is exactly       *)
(* "---"; the lazy group ends before the first later line, from the third  *)
(* on, that begins with "---" (the group is followed by "\n---", so the    *)
(* second line always belongs to it).  0 when there is no match.           *)
(***************************************************************************)
\* A closing marker that has to be a line of its own.
ClosingLineWhole(content) ==
  IF Len(content) >= 3 /\ content[1] = Marker
       /\ \E i \in 3..Len(content) : content[i] = Marker
    THEN CHOOSE i \in 3..Len(content) :
           content[i] = Marker /\ \A j \in 3..(i - 1) : content[j] # Marker
    ELSE 0

ClosingLine(content) ==
  IF Len(content) >= 3 /\ content[1] = Marker
       /\ \E i \in 3..Len(content) : StartsWithDashes(content[i])
    THEN CHOOSE i \in 3..Len(content) :
           /\ StartsWithDashes(content[i])
           /\ \A j \in 3..(i - 1) : ~StartsWithDashes(content[j])
    ELSE 0

\* frontmatterMatch[1]
Frontmatter(content) == SubSeq(content, 2, ClosingLine(content) - 1)


(***************************************************************************)
(* yaml.parse(frontmatter), for the headers written with the lines above.  *)
(* Blank lines and comments carry nothing; a leading "---" starts the YAML *)
(* document.  A header with nothing left parses to null.                   *)
(***************************************************************************)
YamlLines(header) ==
  LET body == IF Len(header) >= 1 /\ header[1] = Marker THEN Tail(header) ELSE header
  IN  SelectSeq(body, LAMBDA l : l.t \notin {"blank", "comment", "text"})

\* The line after the block of fields that follows line j.
BlockEnd(ls, j) ==
  IF \E i \in (j + 1)..Len(ls) : ls[i].t # "field"
    THEN CHOOSE i \in (j + 1)..Len(ls) :
           ls[i].t # "field" /\ \A m \in (j + 1)..(i - 1) : ls[m].t = "field"
    ELSE Len(ls) + 1

\* The top-level line a nested line belongs to (0 when none precedes it).
OwnerTop(ls, i) ==
  IF \E j \in 1..(i - 1) : ls[j].t = "top"
    THEN CHOOSE j \in 1..(i - 1) :
           ls[j].t = "top" /\ \A m \in (j + 1)..(i - 1) : ls[m].t # "top"
    ELSE 0

\* The name line a field belongs to (0 when none precedes it in its block).
OwnerName(ls, i) ==
  IF \E j \in 1..(i - 1) : ls[j].t = "name" /\ BlockEnd(ls, j) > i
    THEN CHOOSE j \in 1..(i - 1) : ls[j].t = "name" /\ BlockEnd(ls, j) > i
    ELSE 0

\* What the parser accepts: a block mapping with unique keys at every level,
\* profile names only under a bare "profiles:", fields only under a bare name.
YamlWellFormed(ls) ==
  /\ \A i \in 1..Len(ls) : ls[i].t \in {"top", "name", "field"}
  /\ Len(ls) >= 1 => ls[1].t = "top"
  /\ \A i, j \in 1..Len(ls) :
       (i # j /\ ls[i].t = ls[j].t /\ ls[i].k = ls[j].k) =>
         /\ ls[i].t # "top"
         /\ ls[i].t # "name"
         /\ OwnerName(ls, i) # OwnerName(ls, j)
  /\ \A i \in 1..Len(ls) :
       ls[i].t = "name" =>
         /\ OwnerTop(ls, i) # 0
         /\ ls[OwnerTop(ls, i)].k = "profiles"
         /\ ls[OwnerTop(ls, i)].v = <<>>
  /\ \A i \in 1..Len(ls) :
       ls[i].t = "field" => (OwnerName(ls, i) # 0 /\ ls[OwnerName(ls, i)].v = <<>>)

\* The scalar of top-level key k (<<>>: the key is absent or has no value).
TopValue(ls, k) ==
  IF \E i \in 1..Len(ls) : ls[i].t = "top" /\ ls[i].k = k
    THEN ls[CHOOSE i \in 1..Len(ls) : ls[i].t = "top" /\ ls[i].k = k].v
    ELSE <<>>

\* The value of field f of the profile declared at line j (<<>>: undefined).
FieldValue(ls, j, f) ==
  IF \E i \in (j + 1)..(BlockEnd(ls, j) - 1) : ls[i].k = f
    THEN ls[CHOOSE i \in (j + 1)..(BlockEnd(ls, j) - 1) : ls[i].k = f].v
    ELSE <<>>

\* The profile declared at line j: null (no body), a scalar, or a mapping.
ProfileAt(ls, j) ==
  [name |-> ls[j].k,
   kind |-> IF ls[j].v # <<>> THEN "scalar"
            ELSE IF BlockEnd(ls, j) = j + 1 THEN "null" ELSE "map",
   authToken |-> FieldValue(ls, j, "authToken"),
   organization |-> FieldValue(ls, j, "organization"),
   baseUrl |-> FieldValue(ls, j, "baseUrl")]

\* The profiles in declaration order.
DeclaredProfiles(ls) ==
  LET idx == SelectSeq([i \in 1..Len(ls) |-> i], LAMBDA i : ls[i].t = "name")
  IN  [n \in 1..Len(idx) |-> ProfileAt(ls, idx[n])]

\* The value of the "profiles" key: undefined, null, a scalar, a list or a mapping.
ProfilesKind(ls) ==
  IF ~\E i \in 1..Len(ls) : ls[i].t = "top" /\ ls[i].k = "profiles" THEN "undefined"
  ELSE IF TopValue(ls, "profiles") = Lit("{}") THEN "map"
  ELSE IF TopValue(ls, "profiles") = Lit("[]") THEN "list"
  ELSE IF TopValue(ls, "profiles") # <<>> THEN "scalar"
  ELSE IF DeclaredProfiles(ls) = <<>> THEN "null"
  ELSE "map"

YamlParse(header) ==
  LET ls == YamlLines(header) IN
  IF ~YamlWellFormed(ls) THEN Throw("YAMLParseError", <<Lit("YAMLParseError")>>)
  ELSE Return([isNull |-> ls = <<>>,
               profilesKind |-> ProfilesKind(ls),
               profiles |-> DeclaredProfiles(ls),
               defaultProfile |-> TopValue(ls, "defaultProfile"),
               defaultFormat |-> TopValue(ls, "defaultFormat")])

(***************************************************************************)
(* Object.keys / Object.entries order: the keys that are array indices     *)
(* first, in ascending numeric order, then the others as they were added.  *)
(***************************************************************************)
ArrayIndex(name) == CASE name = "7" -> 7 [] name = "10" -> 10 [] OTHER -> -1

RECURSIVE InsertByIndex(_, _)
InsertByIndex(sorted, e) ==
  IF sorted = <<>> THEN <<e>>
  ELSE IF ArrayIndex(e.name) < ArrayIndex(Head(sorted).name) THEN <<e>> \o sorted
  ELSE <<Head(sorted)>> \o InsertByIndex(Tail(sorted), e)

RECURSIVE SortByIndex(_)
SortByIndex(es) ==
  IF es = <<>> THEN <<>> ELSE InsertByIndex(SortByIndex(Tail(es)), Head(es))

ObjectEntries(es) ==
  SortByIndex(SelectSeq(es, LAMBDA e : ArrayIndex(e.name) >= 0))
    \o SelectSeq(es, LAMBDA e : ArrayIndex(e.name) < 0)

ObjectKeys(es) == [i \in 1..Len(es) |-> ObjectEntries(es)[i].name]

(***************************************************************************)
(* config-loader.ts                                                        *)
(***************************************************************************)
HttpScheme == "http://"
HttpsScheme == "https://"
DefaultBaseUrl == <<HttpsScheme, "sentry.io/api/0">>

NotFoundText == Lit("Configuration file not found at ")
BadFormatText ==
  Lit("Invalid configuration file format. Expected YAML frontmatter (---...---) at the beginning.")
NoProfilesText == Lit("Configuration must include \"profiles\" object")
MissingFieldText == Lit("\" missing required field: ")
BadBaseUrlText == Lit("\" baseUrl must start with http:// or https://")

RequiredFields == <<"authToken", "organization">>

\* profile[field]: a property of a mapping; undefined on a string.
Property(profile, field) == IF profile.kind = "map" THEN profile[field] ELSE <<>>

\* One round of the loop over the profiles (lines 66-78): what it throws, if anything.
\* Reading a property of null is a TypeError.
ValidateProfile(profile) ==
  LET missing == {i \in 1..Len(RequiredFields) : ~Truthy(Property(profile, RequiredFields[i]))}
      first == CHOOSE i \in missing : \A j \in missing : i <= j
  IN
  IF profile.kind = "null"
    THEN Throw("TypeError", <<Lit("Cannot read properties of null (reading '"),
                              Lit(RequiredFields[1]), Lit("')")>>)
  ELSE IF missing # {}
    THEN Throw("Error", <<Lit("Profile \""), Lit(profile.name), MissingFieldText,
                          Lit(RequiredFields[first])>>)
  ELSE IF Truthy(profile.baseUrl) /\ ~IsString(profile.baseUrl)
    THEN Throw("TypeError", <<Lit("profile.baseUrl.startsWith is not a function")>>)
  ELSE IF /\ Truthy(profile.baseUrl)
          /\ ~StartsWith(profile.baseUrl, HttpScheme)
          /\ ~StartsWith(profile.baseUrl, HttpsScheme)
    THEN Throw("Error", <<Lit("Profile \""), Lit(profile.name), BadBaseUrlText>>)
  ELSE Return("valid")

\* The loop itself: the first throw in Object.entries order.
RECURSIVE ValidateProfiles(_)
ValidateProfiles(entries) ==
  IF entries = <<>> THEN Return("valid")
  ELSE IF ValidateProfile(Head(entries)).threw THEN ValidateProfile(Head(entries))
  ELSE ValidateProfiles(Tail(entries))

\* The file loadConfig reads.
\* A loader that looks for the connector file name instead.
ConfigPathConnector(projectRoot) == PathJoin(projectRoot, ".claude", ConnectorFileName)

ConfigPath(projectRoot) == PathJoin(projectRoot, ".claude", ConfigFileName)

LoadConfig(fs, projectRoot) ==
  LET configPath == ConfigPath(projectRoot) IN
  IF ~ExistsSync(fs, configPath)
    THEN Throw("Error", <<NotFoundText, configPath,
                          Lit("\nPlease create .claude/sentry-config.local.md with your Sentry profiles.")>>)
  ELSE
  LET content == ReadFileSync(fs, configPath) IN
  IF ClosingLine(content) = 0 THEN Throw("Error", <<BadFormatText>>)
  ELSE
  LET parsed == YamlParse(Frontmatter(content)) IN
  IF parsed.threw THEN parsed
  ELSE
  LET config == parsed.value
      entries == ObjectEntries(config.profiles)
  IN
  IF config.isNull
    THEN Throw("TypeError", <<Lit("Cannot read properties of null (reading '"),
                              Lit("profiles"), Lit("')")>>)
  ELSE IF config.profilesKind \notin {"map", "list"} THEN Throw("Error", <<NoProfilesText>>)
  ELSE IF ValidateProfiles(entries).threw THEN ValidateProfiles(entries)
  ELSE Return([profiles |-> entries,
               defaultProfile |->
                 IF Truthy(config.defaultProfile) THEN ScalarOf(config.defaultProfile)
                 ELSE IF entries = <<>> THEN Undefined ELSE ObjectKeys(entries)[1],
               defaultFormat |->
                 IF Truthy(config.defaultFormat) THEN ScalarOf(config.defaultFormat)
                 ELSE "json"])

\* config.profiles[profileName]: the entry's position, 0 when there is none.
ProfileIndex(config, profileName) ==
  IF \E i \in 1..Len(config.profiles) : config.profiles[i].name = profileName
    THEN CHOOSE i \in 1..Len(config.profiles) : config.profiles[i].name = profileName
    ELSE 0

\* Names every object answers to without declaring them: config.profiles is a
\* plain object, and config.profiles["constructor"] is Object's constructor.
PrototypeKeys == {"constructor"}

GetSentryClientOptions(config, profileName) ==
  LET i == ProfileIndex(config, profileName) IN
  IF i = 0 /\ profileName \in PrototypeKeys
    THEN Return([authToken |-> <<>>, organization |-> <<>>, baseUrl |-> DefaultBaseUrl])
  ELSE IF i = 0
    THEN Throw("Error", <<Lit("Profile \""), Lit(profileName),
                          Lit("\" not found. Available profiles: "),
                          [n \in 1..Len(config.profiles) |-> config.profiles[n].name]>>)
  ELSE Return([authToken |-> config.profiles[i].authToken,
               organization |-> config.profiles[i].organization,
               baseUrl |-> IF Truthy(config.profiles[i].baseUrl)
                             THEN config.profiles[i].baseUrl ELSE DefaultBaseUrl])

(***************************************************************************)
(* The configuration documents the loader is run on.                       *)
(***************************************************************************)
ProfileNames == {"prod", "dev", "7"}

GoodUrls == {<<HttpsScheme, "staging.sentry.io/api/0">>, <<HttpScheme, "localhost:9000/api/0">>}
BadUrls == {<<"ftp://", "sentry.io">>, <<"sentry.io/api/0">>}
\* "baseUrl: 8080" and "baseUrl:" with nothing after the colon.
OddUrls == {Lit("8080"), <<>>}

AuthTokenLine == Line("field", "authToken", Lit("TOKEN_HERE"))
OrganizationLine == Line("field", "organization", Lit("my-org"))
BaseUrlLine(url) == Line("field", "baseUrl", url)

\* The bodies a profile is declared with: complete, with a base URL (good or
\* bad), lacking a field, with an empty field, with nothing at all.
ProfileBodies ==
  {<<AuthTokenLine, OrganizationLine>>,
   <<OrganizationLine, CommentLine>>,
   <<AuthTokenLine, CommentLine>>,
   <<Line("field", "authToken", <<>>), OrganizationLine>>,
   <<>>}
    \cup {<<AuthTokenLine, OrganizationLine, BaseUrlLine(u)>> :
            u \in GoodUrls \cup BadUrls \cup OddUrls}
    \cup {<<BaseUrlLine(u), OrganizationLine>> : u \in BadUrls}

ProfileDecls ==
  {<<Line("name", n, <<>>)>> \o b : n \in ProfileNames, b \in ProfileBodies}
    \cup {<<Line("name", n, Lit("hello"))>> : n \in ProfileNames}

\* The lines of n profile declarations.
RECURSIVE ProfileBlocks(_)
ProfileBlocks(n) ==
  IF n = 0 THEN {<<>>}
  ELSE {b \o d : b \in ProfileBlocks(n - 1), d \in ProfileDecls}

ProfilesSections ==
  {<<>>, <<Line("top", "profiles", Lit("{}"))>>, <<Line("top", "profiles", Lit("none"))>>,
   <<Line("top", "profiles", Lit("[]"))>>}
    \cup {<<Line("top", "profiles", <<>>)>> \o b :
            b \in UNION {ProfileBlocks(n) : n \in 0..MaxProfiles}}

DefaultsSections ==
  {<<>>,
   <<Line("top", "defaultProfile", Lit("prod"))>>,
   <<Line("top", "defaultProfile", Lit("ghost")), Line("top", "defaultFormat", Lit("toon"))>>,
   <<BlankLine, Line("top", "defaultFormat", Lit("xml"))>>,
   <<BadLine>>}

Headers == {p \o d : p \in ProfilesSections, d \in DefaultsSections}

\* The two-profile document of the README and of the tests.
SampleHeader ==
  <<Line("top", "profiles", <<>>),
    Line("name", "prod", <<>>), AuthTokenLine, OrganizationLine,
    Line("name", "dev", <<>>), AuthTokenLine, OrganizationLine,
    BaseUrlLine(<<HttpsScheme, "staging.sentry.io/api/0">>),
    BlankLine,
    Line("top", "defaultProfile", Lit("prod")),
    Line("top", "defaultFormat", Lit("json"))>>

\* A header between its markers, and the ways a document departs from that.
Framed(h) == <<Marker>> \o h \o <<Marker>>

Layouts(h) ==
  {Framed(h),
   Framed(h) \o <<BlankLine, TextLine>>,
   Framed(h) \o <<TextLine, Marker, TextLine>>,
   h,
   <<Marker>> \o h,
   <<TextLine>> \o Framed(h),
   <<Marker>> \o h \o <<MarkerX>>,
   <<MarkerX>> \o h \o <<Marker>>,
   <<Marker, Marker>> \o h \o <<Marker>>,
   <<Marker, BlankLine>> \o h \o <<Marker>>}

Documents ==
  {Framed(h) : h \in Headers}
    \cup UNION {Layouts(h) : h \in {SampleHeader, <<>>, <<Line("top", "profiles", Lit("{}"))>>}}

SampleDocument == Framed(SampleHeader)

(***************************************************************************)
(* sentry-client.ts / sentry-utils.ts: the client registry.                *)
(***************************************************************************)
\* process.env.CLAUDE_PROJECT_ROOT || process.cwd()
ProjectRoot == "/proj"

EmptyPool == [name \in {} |-> 0]

\* Whether the registry keeps the configuration it has loaded is not fixed by
\* what can be observed of it: a registry either never keeps one ("off") or
\* keeps the one it loaded until the next clear ("empty", then "loaded").
NoCache == [state |-> "off"]
EmptyCache == [state |-> "empty"]
Cached(config) == [state |-> "loaded", config |-> config]

\* The configuration a getClient miss works with, and the cache after it.
ConfigFor(cache, fs) ==
  IF cache.state = "loaded" THEN Return(cache.config) ELSE LoadConfig(fs, ProjectRoot)
CacheAfter(cache, loaded) ==
  IF cache.state = "empty" /\ ~loaded.threw THEN Cached(loaded.value) ELSE cache

PoolWith(pool, profileName, client) ==
  [n \in DOMAIN pool \cup {profileName} |-> IF n = profileName THEN client ELSE pool[n]]

\* getClient without the pool lookup: every call constructs.
GetClientUnpooled(pool, cache, fs, next, profileName) ==
  LET loaded == ConfigFor(cache, fs)
      options == GetSentryClientOptions(loaded.value, profileName)
      client == [id |-> next, profile |-> profileName, options |-> options.value]
  IN
  IF loaded.threw THEN [outcome |-> loaded, pool |-> pool, cache |-> cache, next |-> next]
  ELSE IF options.threw
    THEN [outcome |-> options, pool |-> pool, cache |-> CacheAfter(cache, loaded),
          next |-> next]
  ELSE [outcome |-> Return(client), pool |-> PoolWith(pool, profileName, client),
        cache |-> CacheAfter(cache, loaded), next |-> next + 1]

\* getClient that remembers a failure: the failed profile gets an entry.
GetClientCachingFailure(pool, cache, fs, next, profileName) ==
  LET loaded == ConfigFor(cache, fs)
      options == GetSentryClientOptions(loaded.value, profileName)
      client == [id |-> next, profile |-> profileName, options |-> options.value]
      broken == [id |-> 0, profile |-> profileName, options |-> "failed"]
  IN
  IF profileName \in DOMAIN pool
    THEN [outcome |-> Return(pool[profileName]), pool |-> pool, cache |-> cache,
          next |-> next]
  ELSE IF loaded.threw
    THEN [outcome |-> loaded, pool |-> PoolWith(pool, profileName, broken),
          cache |-> cache, next |-> next]
  ELSE IF options.threw
    THEN [outcome |-> options, pool |-> PoolWith(pool, profileName, broken),
          cache |-> CacheAfter(cache, loaded), next |-> next]
  ELSE [outcome |-> Return(client), pool |-> PoolWith(pool, profileName, client),
        cache |-> CacheAfter(cache, loaded), next |-> next + 1]

\* getClient(profileName): the pooled handle when there is one; otherwise the
\* configuration is loaded, the profile resolved, a client constructed for the
\* options and stored.  An error of the load or of the resolution propagates and
\* no entry is stored.  [outcome, pool, cache, next]: what the call returns or
\* throws, and the registry, its configuration and the next identity after it.
GetClient(pool, cache, fs, next, profileName) ==
  LET loaded == ConfigFor(cache, fs)
      options == GetSentryClientOptions(loaded.value, profileName)
      client == [id |-> next, profile |-> profileName, options |-> options.value]
  IN
  IF profileName \in DOMAIN pool
    THEN [outcome |-> Return(pool[profileName]), pool |-> pool, cache |-> cache,
          next |-> next]
  ELSE IF loaded.threw THEN [outcome |-> loaded, pool |-> pool, cache |-> cache, next |-> next]
  ELSE IF options.threw
    THEN [outcome |-> options, pool |-> pool, cache |-> CacheAfter(cache, loaded),
          next |-> next]
  ELSE [outcome |-> Return(client), pool |-> PoolWith(pool, profileName, client),
        cache |-> CacheAfter(cache, loaded), next |-> next + 1]

\* clearClients that discards nothing.
ClearClientsKeeping(pool) == pool

\* clearClients(): every entry goes, whatever the registry holds.
ClearClients(pool) == EmptyPool

\* A clear also drops the configuration the registry kept.
ClearConfig(cache) == IF cache.state = "off" THEN cache ELSE EmptyCache

(***************************************************************************)
(* The thirteen operations.  Each resolves its client, makes its remote    *)
(* call (the one suspension point) and folds the outcome of the transport  *)
(* into an ApiResult.                                                      *)
(***************************************************************************)
Commands ==
  <<"list-project-events", "list-project-issues", "list-org-issues", "get-issue",
    "update-issue", "list-issue-events", "get-event", "get-issue-event",
    "get-tag-details", "list-tag-values", "list-issue-hashes", "debug-source-maps",
    "test-connection">>

CommandSet == {Commands[i] : i \in 1..Len(Commands)}

Formats == {"json", "toon"}

\* What the transport does with a request.
TransportOutcomes == {"ok", "network error", "non-2xx response"}

\* The rendering of an operation's payload.
FormatResult(op, format) == <<Lit(format), Lit(op)>>

\* An operation that reports a transport failure without its error.
OperationResultBare(task, transport) ==
  IF transport = "ok"
    THEN [success |-> TRUE, result |-> FormatResult(task.op, task.format)]
    ELSE [success |-> FALSE]

\* The ApiResult of an operation whose remote call ended with `transport`.
OperationResult(task, transport) ==
  IF transport = "ok"
    THEN [success |-> TRUE, result |-> FormatResult(task.op, task.format)]
    ELSE [success |-> FALSE, error |-> <<Lit("ERROR: "), Lit(transport)>>]

\* wrapper's fields as constructed, in a process that runs.
NotExited == -1
NotLoaded == [state |-> "null"]
Loaded(value) == [state |-> "loaded", value |-> value]

WrapperInit ==
  /\ wrapperConfig = NotLoaded
  /\ currentProfile = ""
  /\ currentFormat = "json"
  /\ exitCode = NotExited
  /\ linesLeft = MaxLines

RegistryInit ==
  /\ WrapperInit
  /\ clientPool = EmptyPool
  /\ configCache \in {NoCache, EmptyCache}
  /\ nextHandle = 1
  /\ inflight = {}
  /\ calls = 0
  /\ edits = 0
  /\ ev = [kind |-> "none"]
  /\ handedOut = {}
  /\ retired = {}
  /\ failedFor = {}

\* A host program calls operation op: the part up to the remote call.
ApiCall(op, profileName, format) ==
  /\ phase = "library"
  /\ calls < MaxCalls
  /\ Cardinality(inflight) < MaxInflight
  /\ \E got \in {GetClient(clientPool, configCache, files, nextHandle, profileName)} :
       /\ got.next <= MaxHandles + 1
       /\ calls' = calls + 1
       /\ clientPool' = got.pool
       /\ configCache' = got.cache
       /\ nextHandle' = got.next
       /\ IF got.outcome.threw
            THEN /\ inflight' = inflight
                 /\ handedOut' = handedOut
                 /\ failedFor' = failedFor \cup {profileName}
                 /\ ev' = [kind |-> "call", op |-> op, profile |-> profileName, threw |-> TRUE,
                           error |-> got.outcome.message]
            ELSE /\ inflight' = inflight \cup {[call |-> calls + 1, op |-> op, format |-> format,
                                                client |-> got.outcome.value]}
                 /\ handedOut' = handedOut \cup {got.outcome.value}
                 /\ failedFor' = failedFor
                 /\ ev' = [kind |-> "call", op |-> op, profile |-> profileName, threw |-> FALSE,
                           client |-> got.outcome.value]
  /\ UNCHANGED <<cliVars, files, loadRoot, loadResult, phase, edits, retired>>

\* The remote call of a suspended operation ends; the operation returns.
ApiFinish(task, transport) ==
  /\ phase = "library"
  /\ task \in inflight
  /\ inflight' = inflight \ {task}
  /\ ev' = [kind |-> "finish", op |-> task.op, transport |-> transport,
            returned |-> OperationResult(task, transport)]
  /\ UNCHANGED <<cliVars, files, loadRoot, loadResult, phase, clientPool, configCache, nextHandle,
                 calls, edits, handedOut, retired, failedFor>>

\* The host program calls clearClients().
ApiClear ==
  /\ phase = "library"
  /\ clientPool' = ClearClients(clientPool)
  /\ configCache' = ClearConfig(configCache)
  /\ retired' = retired \cup handedOut
  /\ handedOut' = {}
  /\ ev' = [kind |-> "clear", held |-> DOMAIN clientPool]
  /\ UNCHANGED <<cliVars, files, loadRoot, loadResult, phase, nextHandle, inflight, calls, edits,
                 failedFor>>

\* The documents the configuration file holds while a process runs.
OneProfileDocument ==
  Framed(<<Line("top", "profiles", <<>>), Line("name", "dev", <<>>), AuthTokenLine,
           OrganizationLine, BaseUrlLine(<<HttpScheme, "localhost:9000/api/0">>)>>)
UnframedDocument == SampleHeader

SessionDocuments == {SampleDocument, OneProfileDocument, UnframedDocument}

\* Someone writes the configuration file, or removes it.
WriteConfig(doc) ==
  /\ phase = "library"
  /\ edits < MaxEdits
  /\ IF ConfigPath(ProjectRoot) \in DOMAIN files
       THEN files[ConfigPath(ProjectRoot)] # doc
       ELSE TRUE
  /\ edits' = edits + 1
  /\ files' = [path \in DOMAIN files \cup {ConfigPath(ProjectRoot)} |->
                 IF path = ConfigPath(ProjectRoot) THEN doc ELSE files[path]]
  /\ UNCHANGED <<cliVars, loadRoot, loadResult, phase, clientPool, configCache, nextHandle, inflight,
                 calls, ev, handedOut, retired, failedFor>>

RemoveConfig ==
  /\ phase = "library"
  /\ edits < MaxEdits
  /\ ConfigPath(ProjectRoot) \in DOMAIN files
  /\ edits' = edits + 1
  /\ files' = [path \in DOMAIN files \ {ConfigPath(ProjectRoot)} |-> files[path]]
  /\ UNCHANGED <<cliVars, loadRoot, loadResult, phase, clientPool, configCache, nextHandle, inflight,
                 calls, ev, handedOut, retired, failedFor>>

\* The profile names a caller asks for: declared ones and one that never is.
AskedProfiles == {"prod", "dev", "nope"}
LibraryOps == {"list-org-issues"}
LibraryFormats == {"json"}

InitPool ==
  /\ \/ \E doc \in {SampleDocument, OneProfileDocument} :
          files = (ConfigPath(ProjectRoot) :> doc)
     \/ files = (PathJoin(ProjectRoot, ".claude", ConnectorFileName) :> SampleDocument)
  /\ loadRoot = ""
  /\ loadResult = Return("none")
  /\ phase = "library"
  /\ RegistryInit

NextPool ==
  \/ \E op \in LibraryOps, profileName \in AskedProfiles, format \in LibraryFormats :
       ApiCall(op, profileName, format)
  \/ \E task \in inflight, transport \in TransportOutcomes : ApiFinish(task, transport)
  \/ ApiClear
  \/ \E doc \in SessionDocuments : WriteConfig(doc)
  \/ RemoveConfig

SpecPool == InitPool /\ [][NextPool]_vars

(***************************************************************************)
(* The registry and the operations, driven by a host program.              *)
(***************************************************************************)
ConfigValidFor(fs, profileName) ==
  /\ ConfigPath(ProjectRoot) \in DOMAIN fs
  /\ \/ fs[ConfigPath(ProjectRoot)] = SampleDocument /\ profileName \in {"prod", "dev"}
     \/ fs[ConfigPath(ProjectRoot)] = OneProfileDocument /\ profileName = "dev"

IsApiResult(r) ==
  \/ DOMAIN r = {"success", "result"} /\ r.success
  \/ DOMAIN r = {"success", "error"} /\ ~r.success

\* C1: the registry holds at most one handle per profile name: the handles
\* getClient returned since the last clear, whatever the interleaving of the
\* concurrent operations that asked for them, are one per profile name, and each
\* is the registry's entry for its name.
C1_OneHandlePerProfile ==
  /\ \A h1, h2 \in handedOut : h1.profile = h2.profile => h1 = h2
  /\ \A h \in handedOut : h.profile \in DOMAIN clientPool /\ clientPool[h.profile] = h

\* Two operations of the same profile are suspended together on one handle.
C1_Witness ==
  \E t1, t2 \in inflight :
    /\ t1.call # t2.call
    /\ t1.client = t2.client
    /\ t1.client \in handedOut

\* C2: clearClients leaves the registry empty whatever it held, and every handle
\* getClient returns after a clear is distinct from every handle returned before
\* that clear.
C2_ClearDiscardsEverything ==
  /\ ev.kind = "clear" => clientPool = EmptyPool
  /\ \A h \in handedOut : \A r \in retired : h.id # r.id
  /\ \A n \in DOMAIN clientPool : \A r \in retired : clientPool[n].id # r.id

\* A getClient succeeds for a profile whose earlier handle a clear discarded.
C2_Witness ==
  /\ ev.kind = "call"
  /\ ~ev.threw
  /\ \E r \in retired : r.profile = ev.profile /\ r.id # ev.client.id

JsonFalsy == {"", "null", "false", "0"}
Falsy(v) == v \in JsonFalsy

JsonPunctuation == {"{", "}", ":", ","}

\* JSON.stringify of an object given as a sequence of <<key, value>>.
RECURSIVE JsonMembers(_)
JsonMembers(pairs) ==
  IF pairs = <<>> THEN <<>>
  ELSE IF Len(pairs) = 1 THEN <<pairs[1][1], ":", pairs[1][2]>>
  ELSE <<pairs[1][1], ":", pairs[1][2], ",">> \o JsonMembers(Tail(pairs))

JsonStringify(pairs) == <<"{">> \o JsonMembers(pairs) \o <<"}">>

\* The text is "{", members "key : value" separated by ",", "}".
IsObjectText(text) ==
  /\ Len(text) >= 2
  /\ text[1] = "{"
  /\ text[Len(text)] = "}"
  /\ \/ Len(text) = 2
     \/ /\ Len(text) % 4 = 1
        /\ \A g \in 1..((Len(text) - 1) \div 4) :
             /\ text[4 * g - 2] \notin JsonPunctuation
             /\ text[4 * g - 1] = ":"
             /\ text[4 * g] \notin JsonPunctuation
             /\ g < (Len(text) - 1) \div 4 => text[4 * g + 1] = ","

\* JSON.parse(text): an object, null, or a SyntaxError.
JsonParse(text) ==
  IF text = <<"null">> THEN Return([kind |-> "null", members |-> <<>>])
  ELSE IF IsObjectText(text)
    THEN Return([kind |-> "object",
                 members |-> [g \in 1..((Len(text) - 1) \div 4) |->
                                <<text[4 * g - 2], text[4 * g]>>]])
  ELSE Throw("SyntaxError", <<Lit("Unexpected token in JSON")>>)

\* arg && arg.trim() !== '' ? JSON.parse(arg) : {}
ParseArgs(arg) ==
  IF arg = <<>> THEN Return([kind |-> "object", members |-> <<>>]) ELSE JsonParse(arg)

\* args.key: the last member of that key, undefined when there is none.
Member(args, key) ==
  LET hits == {g \in 1..Len(args.members) : args.members[g][1] = key} IN
  IF hits = {} THEN Undefined
  ELSE args.members[CHOOSE g \in hits : \A h \in hits : h <= g][2]

NullArgsError ==
  Throw("TypeError", <<Lit("Cannot read properties of null (reading '"), Lit("profile"),
                       Lit("')")>>)

\* A switch whose cases check the first of their parameters only.
RequiredFirstOnly(command) ==
  CASE command \in {"list-project-events", "list-project-issues", "get-event",
                    "debug-source-maps"} -> <<"projectSlug">>
    [] command \in {"get-issue", "update-issue", "list-issue-events", "list-issue-hashes",
                    "get-issue-event", "get-tag-details", "list-tag-values"} -> <<"issueId">>
    [] OTHER -> <<>>

\* The parameters a command's case of the switch requires, in its order.
Required(command) ==
  CASE command \in {"list-project-events", "list-project-issues"} -> <<"projectSlug">>
    [] command \in {"get-issue", "update-issue", "list-issue-events", "list-issue-hashes"} ->
         <<"issueId">>
    [] command \in {"get-event", "debug-source-maps"} -> <<"projectSlug", "eventId">>
    [] command = "get-issue-event" -> <<"issueId", "eventId">>
    [] command \in {"get-tag-details", "list-tag-values"} -> <<"issueId", "tagKey">>
    [] OTHER -> <<>>

MissingRequired(command, args) ==
  \E i \in 1..Len(Required(command)) : Falsy(Member(args, Required(command)[i]))

RequiredMessage(command) ==
  IF Len(Required(command)) = 1
    THEN <<Lit("ERROR: \""), Lit(Required(command)[1]), Lit("\" parameter is required")>>
    ELSE <<Lit("ERROR: \""), Lit(Required(command)[1]), Lit("\" and \""),
           Lit(Required(command)[2]), Lit("\" parameters are required")>>

\* console.log and console.error of a message.
Log(text) == [stream |-> "out", text |-> text]
Error(text) == [stream |-> "err", text |-> text]

NoDispatch == <<>>
Dispatch(op, profile, format) == <<[op |-> op, profile |-> profile, format |-> format]>>

(***************************************************************************)
(* cli/wrapper.ts: the interactive session.  A handler's synchronous part  *)
(* is a plan: what it prints, whether it prompts, what it dispatches, the  *)
(* session's profile and format after it, whether it closes the session.   *)
(***************************************************************************)
Plan(printed, prompt, dispatch, profile, format, close) ==
  [printed |-> printed, prompt |-> prompt, dispatch |-> dispatch, profile |-> profile,
   format |-> format, close |-> close]

\* The answer to an unknown command without its hint.
UnknownCommandBare(command) == <<Lit("Unknown command: "), Lit(command)>>

UnknownCommandMessage(command) ==
  <<Lit("Unknown command: "), Lit(command),
    Lit(". Type \"commands\" to see available commands.")>>

\* updateIssue(profile, args.issueId, args) and testConnection(profile) are
\* called without the format: their result is rendered as the operation
\* renders it when no format is given.
Unformatted == {"update-issue", "test-connection"}
OwnFormat == "unpassed"

\* runCommand(command, arg) up to its await.
RunCommand(cfg, profileNow, formatNow, command, arg) ==
  LET parsed == ParseArgs(arg)
      args == parsed.value
      profile == IF Falsy(Member(args, "profile")) THEN profileNow ELSE Member(args, "profile")
      format == IF Falsy(Member(args, "format")) THEN formatNow ELSE Member(args, "format")
      Answer(item) == Plan(<<item>>, TRUE, NoDispatch, profileNow, formatNow, FALSE)
  IN
  IF cfg.state # "loaded" \/ profileNow = ""
    THEN Answer(Log(<<Lit("Configuration not loaded!")>>))
  ELSE IF parsed.threw
    THEN Answer(Error(<<Lit("Error running command:")>> \o parsed.message))
  ELSE IF args.kind = "null"
    THEN Answer(Error(<<Lit("Error running command:")>> \o NullArgsError.message))
  ELSE IF command \notin CommandSet THEN Answer(Error(UnknownCommandMessage(command)))
  ELSE IF MissingRequired(command, args) THEN Answer(Error(RequiredMessage(command)))
  ELSE Plan(<<>>, FALSE,
            Dispatch(command, profile, IF command \in Unformatted THEN OwnFormat ELSE format),
            profileNow, formatNow, FALSE)

(***************************************************************************)
(* commands/helpers: printAvailableCommands, printCommandDetail.  What     *)
(* COMMANDS_INFO and COMMANDS_DETAIL hold for a command is written as the  *)
(* pieces <<"info", name>> and <<"detail", name>>.                         *)
(***************************************************************************)
PrintAvailableCommands ==
  <<Log(<<Lit("\nAvailable Sentry commands:")>>)>>
    \o [i \in 1..Len(Commands) |-> Log(<<Lit(Commands[i]), Lit(": "), <<"info", Commands[i]>>>>)]

\* A printCommandDetail that answers an unknown name with the catalog alone.
PrintCommandDetailSilent(command) ==
  IF Len(command) = 1 /\ command[1] \in CommandSet
    THEN <<Log(<<command, Lit("\n"), <<"info", command[1]>>, <<"detail", command[1]>>>>)>>
    ELSE PrintAvailableCommands

\* The name is a tokenised argument; '' is <<>>.
PrintCommandDetail(command) ==
  IF command = <<>>
    THEN <<Log(<<Lit("Please provide a command name.")>>)>> \o PrintAvailableCommands
  ELSE IF ~(Len(command) = 1 /\ command[1] \in CommandSet)
    THEN <<Log(<<Lit("Unknown command: "), command>>)>> \o PrintAvailableCommands
  ELSE <<Log(<<command, Lit("\n"), <<"info", command[1]>>, <<"detail", command[1]>>>>)>>

\* this.config && this.config.profiles[newProfile]: truthy for a declared
\* profile, and for a name every object answers to.
HasProfile(cfg, arg) ==
  /\ cfg.state = "loaded"
  /\ Len(arg) = 1
  /\ ProfileIndex(cfg.value, arg[1]) # 0 \/ arg[1] \in PrototypeKeys

AvailableProfiles(cfg) ==
  IF cfg.state = "loaded"
    THEN [n \in 1..Len(cfg.value.profiles) |-> cfg.value.profiles[n].name]
    ELSE Lit("none")

\* A trimmed input line: its first word and the rest after the first space.
InputLine(command, arg) == [command |-> command, arg |-> arg]
Flag(name) == <<"-", name>>

\* handleCommand(input) up to its await.
HandleCommand(cfg, profileNow, formatNow, line) ==
  LET Stay(printed) == Plan(printed, TRUE, NoDispatch, profileNow, formatNow, FALSE)
      word == line.arg = <<>>
  IN
  IF line.command = "" THEN Stay(<<>>)
  ELSE IF word /\ line.command \in {"exit", "quit", "q"}
    THEN Plan(<<Log(<<Lit("\nClosing Sentry connections...")>>)>>, FALSE, NoDispatch,
              profileNow, formatNow, TRUE)
  ELSE IF word /\ line.command \in {"help", "?"}
    THEN Stay(<<Log(<<Lit("help"), Lit(IF profileNow = "" THEN "none" ELSE profileNow),
                      Lit(formatNow)>>)>>)
  ELSE IF word /\ line.command = "commands" THEN Stay(PrintAvailableCommands)
  ELSE IF word /\ line.command = "clear" THEN Stay(<<>>)
  ELSE IF ~word /\ line.command = "profile"
    THEN IF HasProfile(cfg, line.arg)
           THEN Plan(<<Log(<<Lit("Switched to profile: ")>> \o <<line.arg>>)>>, TRUE,
                     NoDispatch, line.arg[1], formatNow, FALSE)
           ELSE Stay(<<Error(<<Lit("ERROR: Profile \""), line.arg,
                               Lit("\" not found. Available: "), AvailableProfiles(cfg)>>)>>)
  ELSE IF ~word /\ line.command = "format"
    THEN IF line.arg \in {<<"json">>, <<"toon">>}
           THEN Plan(<<Log(<<Lit("Output format set to: "), line.arg>>)>>, TRUE, NoDispatch,
                     profileNow, line.arg[1], FALSE)
           ELSE Stay(<<Error(<<Lit("ERROR: Invalid format. Choose: json or toon")>>)>>)
  ELSE IF word /\ line.command = "profiles"
    THEN Stay(IF cfg.state = "loaded"
                THEN <<Log(<<Lit("\nAvailable profiles:"), AvailableProfiles(cfg),
                             Lit(profileNow)>>)>>
                ELSE <<>>)
  ELSE IF line.arg = Flag("h") THEN Stay(PrintCommandDetail(Lit(line.command)))
  ELSE RunCommand(cfg, profileNow, formatNow, line.command, line.arg)

(***************************************************************************)
(* utils/argParser.ts: parseArguments.                                     *)
(***************************************************************************)
VersionFlags == {<<"-", "-version">>, Flag("v")}
CommandsFlag == <<"-", "-commands">>
HelpFlags == {<<"-", "-help">>, Flag("h")}

\* a.startsWith('-')
StartsWithDash(a) == a # <<>> /\ a[1] = "-"

\* rest.find(test) ?? null, null and '' both being <<>>.
FirstOr(rest, Test(_)) ==
  IF \E i \in 1..Len(rest) : Test(rest[i])
    THEN rest[CHOOSE i \in 1..Len(rest) : Test(rest[i]) /\ \A j \in 1..(i - 1) : ~Test(rest[j])]
    ELSE <<>>

Informed(what) == [kind |-> "exit", printed |-> <<Log(what)>>]

\* The loop of parseArguments from index i on (the first argument is args[1]).
RECURSIVE ParseFrom(_, _)
ParseFrom(args, i) ==
  IF i > Len(args) THEN [kind |-> "interactive"]
  ELSE IF args[i] \in VersionFlags THEN Informed(<<Lit("version")>>)
  ELSE IF args[i] = CommandsFlag THEN [kind |-> "exit", printed |-> PrintAvailableCommands]
  ELSE IF i = 1 /\ Len(args) >= 2 /\ args[2] = Flag("h")
    THEN [kind |-> "exit", printed |-> PrintCommandDetail(args[1])]
  ELSE IF args[i] \in HelpFlags THEN Informed(<<Lit("usage")>>)
  ELSE IF i = 1 /\ Len(args[1]) = 1 /\ args[1][1] \in CommandSet
    THEN [kind |-> "run",
          command |-> args[1][1],
          params |-> FirstOr(Tail(args), LAMBDA a : ~StartsWithDash(a)),
          flag |-> FirstOr(Tail(args), StartsWithDash)]
  ELSE ParseFrom(args, i + 1)

\* A parser that examines the first argument and no other.
ParseArgumentsFirstOnly(args) ==
  IF args = <<>> THEN [kind |-> "interactive"] ELSE ParseFrom(<<args[1]>>, 1)

\* A parser that answers an empty argument list with the usage text.
ParseArgumentsUsage(args) ==
  IF args = <<>> THEN Informed(<<Lit("usage")>>) ELSE ParseFrom(args, 1)

ParseArguments(args) == ParseFrom(args, 1)

\* process.exit(1): the exit code of a failed run.
ExitFailure == 1

\* process.exit(0) after runCommand has returned.
ExitAfterRunFailing == ExitFailure
ExitAfterRun == 0

(***************************************************************************)
(* commands/runner.ts: runCommand(command, arg, flag) up to its await.     *)
(* The configuration is loaded, the argument parsed, the command checked;  *)
(* every failure is printed and the process exits with 1.                  *)
(***************************************************************************)
RunnerFails(cause, text) ==
  [printed |-> <<Error(text)>>, exit |-> ExitFailure, cause |-> cause, dispatch |-> NoDispatch]

RunnerRunCommand(fs, command, arg) ==
  LET loaded == LoadConfig(fs, ProjectRoot)
      parsed == ParseArgs(arg)
      args == parsed.value
      profile == IF Falsy(Member(args, "profile")) THEN loaded.value.defaultProfile
                 ELSE Member(args, "profile")
      format == IF Falsy(Member(args, "format")) THEN loaded.value.defaultFormat
                ELSE Member(args, "format")
  IN
  IF loaded.threw
    THEN RunnerFails("config", <<Lit("Error executing command:")>> \o loaded.message)
  ELSE IF parsed.threw
    THEN RunnerFails("parse", <<Lit("Error executing command:")>> \o parsed.message)
  ELSE IF args.kind = "null"
    THEN RunnerFails("parse", <<Lit("Error executing command:")>> \o NullArgsError.message)
  ELSE IF command \notin CommandSet
    THEN RunnerFails("unknown", <<Lit("Unknown command: "), Lit(command)>>)
  ELSE IF MissingRequired(command, args) THEN RunnerFails("missing", RequiredMessage(command))
  ELSE [printed |-> <<>>, exit |-> NotExited, cause |-> "none",
        dispatch |-> Dispatch(command, profile, format)]

(***************************************************************************)
(* One process of the command-line program.                                *)
(***************************************************************************)
\* getClient was called and returned `got`.
Resolved(got, profileName) ==
  /\ clientPool' = got.pool
  /\ configCache' = got.cache
  /\ nextHandle' = got.next
  /\ handedOut' = IF got.outcome.threw THEN handedOut ELSE handedOut \cup {got.outcome.value}
  /\ failedFor' = IF got.outcome.threw THEN failedFor \cup {profileName} ELSE failedFor

\* clearClients() was called.
Cleared ==
  /\ clientPool' = ClearClients(clientPool)
  /\ configCache' = ClearConfig(configCache)
  /\ retired' = retired \cup handedOut
  /\ handedOut' = {}

Exits(code) == phase' = "exited" /\ exitCode' = code

\* The arguments ask for information: it is printed and the process exits.
StartInformed(args) ==
  /\ phase = "boot"
  /\ ParseArguments(args).kind = "exit"
  /\ Exits(0)
  /\ ev' = [kind |-> "arguments", args |-> args, printed |-> ParseArguments(args).printed]
  /\ UNCHANGED <<files, loadRoot, loadResult, wrapperConfig, currentProfile, currentFormat,
                 linesLeft, clientPool, configCache, nextHandle, inflight, calls, edits,
                 handedOut, retired, failedFor>>

\* The runner's runCommand up to the remote call, for a caller.
HeadlessBegin(command, arg, caller, args) ==
  \E plan \in {RunnerRunCommand(files, command, arg)} :
  LET Report(printed, cause, resolved, remote) ==
        [kind |-> "headless", caller |-> caller, args |-> args, command |-> command, arg |-> arg,
         printed |-> printed, cause |-> cause, resolved |-> resolved, remote |-> remote]
  IN
  IF plan.dispatch = NoDispatch
    THEN /\ Exits(plan.exit)
         /\ ev' = Report(plan.printed, plan.cause, FALSE, FALSE)
         /\ UNCHANGED <<clientPool, configCache, nextHandle, inflight, calls, handedOut,
                        failedFor>>
  ELSE
  \E call \in {plan.dispatch[1]} :
  \E got \in {GetClient(clientPool, configCache, files, nextHandle, call.profile)} :
  IF got.outcome.threw
    THEN /\ Exits(ExitFailure)
         /\ Resolved(got, call.profile)
         /\ ev' = Report(<<Error(<<Lit("Error executing command:")>> \o got.outcome.message)>>,
                         "resolve", TRUE, FALSE)
         /\ UNCHANGED <<inflight, calls>>
  ELSE /\ phase' = "headless"
       /\ exitCode' = exitCode
       /\ Resolved(got, call.profile)
       /\ calls' = calls + 1
       /\ inflight' = inflight \cup {[call |-> calls + 1, op |-> command,
                                      format |-> call.format, client |-> got.outcome.value,
                                      caller |-> caller, arg |-> arg]}
       /\ ev' = Report(<<>>, "none", TRUE, TRUE)

\* parseArguments finds a command as first argument and runs it.
StartHeadless(args) ==
  /\ phase = "boot"
  /\ ParseArguments(args).kind = "run"
  /\ HeadlessBegin(ParseArguments(args).command, ParseArguments(args).params, "cli", args)
  /\ UNCHANGED <<files, loadRoot, loadResult, wrapperConfig, currentProfile, currentFormat,
                 linesLeft, edits, retired>>

\* A host program calls the runner's runCommand itself.
RunnerDirect(command, arg) ==
  /\ phase = "boot"
  /\ HeadlessBegin(command, arg, "host", <<>>)
  /\ UNCHANGED <<files, loadRoot, loadResult, wrapperConfig, currentProfile, currentFormat,
                 linesLeft, edits, retired>>

\* The remote call of the headless command ends.  On a success the runner
\* either exits with 0 itself or returns, and then parseArguments exits.
HeadlessFinish(task, transport, runnerExits) ==
  LET result == OperationResult(task, transport)
      Report(printed, cause) ==
        [kind |-> "headless", caller |-> task.caller, args |-> <<>>, command |-> task.op,
         arg |-> task.arg,
         printed |-> printed, cause |-> cause, resolved |-> TRUE, remote |-> TRUE]
  IN
  /\ phase = "headless"
  /\ task \in inflight
  /\ inflight' = inflight \ {task}
  /\ IF ~result.success
       THEN Exits(ExitFailure) /\ ev' = Report(<<Error(result.error)>>, "transport")
       ELSE /\ ev' = Report(<<Log(result.result)>>, "none")
            /\ IF runnerExits THEN Exits(0)
               ELSE IF task.caller = "cli" THEN Exits(ExitAfterRun)
               ELSE phase' = "returned" /\ exitCode' = exitCode
  /\ UNCHANGED <<files, loadRoot, loadResult, wrapperConfig, currentProfile, currentFormat,
                 linesLeft, clientPool, configCache, nextHandle, calls, edits, handedOut,
                 retired, failedFor>>

\* A connect() that reports the failure of the load and goes on to start().
StartInteractiveLenient(args) ==
  /\ phase = "boot"
  /\ ParseArguments(args).kind = "interactive"
  /\ \E loaded \in {LoadConfig(files, ProjectRoot)} :
       /\ phase' = "repl"
       /\ exitCode' = exitCode
       /\ IF loaded.threw
            THEN /\ ev' = [kind |-> "connect", args |-> args,
                           printed |-> <<Error(<<Lit("Failed to load configuration:")>>
                                                  \o loaded.message)>>,
                           prompted |-> TRUE]
                 /\ UNCHANGED <<wrapperConfig, currentProfile, currentFormat>>
            ELSE /\ wrapperConfig' = Loaded(loaded.value)
                 /\ currentProfile' = loaded.value.defaultProfile
                 /\ currentFormat' = loaded.value.defaultFormat
                 /\ ev' = [kind |-> "connect", args |-> args,
                           printed |-> <<Log(<<Lit("help")>>)>>,
                           prompted |-> TRUE]
  /\ UNCHANGED <<files, loadRoot, loadResult, linesLeft, clientPool, configCache, nextHandle,
                 inflight, calls, edits, handedOut, retired, failedFor>>

\* No argument is a flag or a command: connect(), then start().
StartInteractive(args) ==
  /\ phase = "boot"
  /\ ParseArguments(args).kind = "interactive"
  /\ \E loaded \in {LoadConfig(files, ProjectRoot)} :
       IF loaded.threw
         THEN /\ Exits(ExitFailure)
              /\ ev' = [kind |-> "connect", args |-> args,
                        printed |-> <<Error(<<Lit("Failed to load configuration:")>>
                                               \o loaded.message)>>,
                        prompted |-> FALSE]
              /\ UNCHANGED <<wrapperConfig, currentProfile, currentFormat>>
         ELSE /\ phase' = "repl"
              /\ exitCode' = exitCode
              /\ wrapperConfig' = Loaded(loaded.value)
              /\ currentProfile' = loaded.value.defaultProfile
              /\ currentFormat' = loaded.value.defaultFormat
              /\ ev' = [kind |-> "connect", args |-> args,
                        printed |-> <<Log(<<Lit("help")>>)>>,
                        prompted |-> TRUE]
  /\ UNCHANGED <<files, loadRoot, loadResult, linesLeft, clientPool, configCache, nextHandle,
                 inflight, calls, edits, handedOut, retired, failedFor>>

\* A line is read: handleCommand up to its await.
ReplLine(line) ==
  /\ phase = "repl"
  /\ linesLeft > 0
  /\ linesLeft' = linesLeft - 1
  /\ \E plan \in {HandleCommand(wrapperConfig, currentProfile, currentFormat, line)} :
       LET call == plan.dispatch[1]
           Report(printed, prompted, resolved, remote) ==
             [kind |-> "line", line |-> line, printed |-> printed, prompted |-> prompted,
              resolved |-> resolved, remote |-> remote]
       IN
       /\ currentProfile' = plan.profile
       /\ currentFormat' = plan.format
       /\ IF plan.close
            THEN /\ Exits(0)
                 /\ Cleared
                 /\ inflight' = {}
                 /\ ev' = Report(plan.printed, FALSE, FALSE, FALSE)
                 /\ UNCHANGED <<nextHandle, calls, failedFor>>
          ELSE IF plan.dispatch = NoDispatch
            THEN /\ ev' = Report(plan.printed, plan.prompt, FALSE, FALSE)
                 /\ UNCHANGED <<phase, exitCode, clientPool, configCache, nextHandle,
                                inflight, calls, handedOut, retired, failedFor>>
          ELSE
            \E got \in {GetClient(clientPool, configCache, files, nextHandle, call.profile)} :
              IF got.outcome.threw
                THEN /\ Resolved(got, call.profile)
                     /\ ev' = Report(<<Error(<<Lit("Error running command:")>>
                                               \o got.outcome.message)>>,
                                     TRUE, TRUE, FALSE)
                     /\ UNCHANGED <<phase, exitCode, inflight, calls, retired>>
                ELSE /\ got.next <= MaxHandles + 1
                     /\ Resolved(got, call.profile)
                     /\ calls' = calls + 1
                     /\ inflight' =
                          inflight \cup {[call |-> calls + 1, op |-> call.op,
                                          format |-> call.format,
                                          client |-> got.outcome.value,
                                          caller |-> "repl", arg |-> line.arg]}
                     /\ ev' = Report(<<>>, FALSE, TRUE, TRUE)
                     /\ UNCHANGED <<phase, exitCode, retired>>
  /\ UNCHANGED <<files, loadRoot, loadResult, wrapperConfig, edits>>

\* A completion that shows the result and leaves the prompt out.
ReplFinishSilent(task, transport) ==
  LET result == OperationResult(task, transport) IN
  /\ phase = "repl"
  /\ task \in inflight
  /\ inflight' = inflight \ {task}
  /\ ev' = [kind |-> "shown", op |-> task.op, transport |-> transport, task |-> task,
            printed |-> IF result.success THEN <<Log(<<Lit("\n")>> \o result.result)>>
                        ELSE <<Error(<<Lit("\n")>> \o result.error)>>,
            prompted |-> FALSE]
  /\ UNCHANGED <<files, loadRoot, loadResult, phase, cliVars, clientPool, configCache,
                 nextHandle, calls, edits, handedOut, retired, failedFor>>

\* A completion that answers a failure of the transport with a second request.
ReplFinishRetrying(task, transport) ==
  LET result == OperationResult(task, transport) IN
  /\ phase = "repl"
  /\ task \in inflight
  /\ IF result.success
       THEN /\ inflight' = inflight \ {task}
            /\ calls' = calls
            /\ ev' = [kind |-> "shown", op |-> task.op, transport |-> transport, task |-> task,
                      printed |-> <<Log(<<Lit("\n")>> \o result.result)>>, prompted |-> TRUE]
       ELSE /\ calls < MaxCalls
            /\ inflight' = (inflight \ {task}) \cup {[task EXCEPT !.call = calls + 1]}
            /\ calls' = calls + 1
            /\ ev' = [kind |-> "retry", op |-> task.op, transport |-> transport, task |-> task,
                      printed |-> <<>>, prompted |-> FALSE]
  /\ UNCHANGED <<files, loadRoot, loadResult, phase, cliVars, clientPool, configCache,
                 nextHandle, edits, handedOut, retired, failedFor>>

\* A completion that renders the result in the session's format of that moment.
ReplFinishLate(task, transport) ==
  LET result == OperationResult([task EXCEPT !.format = currentFormat], transport) IN
  /\ phase = "repl"
  /\ task \in inflight
  /\ inflight' = inflight \ {task}
  /\ ev' = [kind |-> "shown", op |-> task.op, transport |-> transport, task |-> task,
            printed |-> IF result.success THEN <<Log(<<Lit("\n")>> \o result.result)>>
                        ELSE <<Error(<<Lit("\n")>> \o result.error)>>,
            prompted |-> TRUE]
  /\ UNCHANGED <<files, loadRoot, loadResult, phase, cliVars, clientPool, configCache,
                 nextHandle, calls, edits, handedOut, retired, failedFor>>

\* The remote call of a command of the session ends: the result is shown.
ReplFinish(task, transport) ==
  LET result == OperationResult(task, transport) IN
  /\ phase = "repl"
  /\ task \in inflight
  /\ inflight' = inflight \ {task}
  /\ ev' = [kind |-> "shown", op |-> task.op, transport |-> transport, task |-> task,
            printed |-> IF result.success THEN <<Log(<<Lit("\n")>> \o result.result)>>
                        ELSE <<Error(<<Lit("\n")>> \o result.error)>>,
            prompted |-> TRUE]
  /\ UNCHANGED <<files, loadRoot, loadResult, phase, cliVars, clientPool, configCache,
                 nextHandle, calls, edits, handedOut, retired, failedFor>>

\* What ends a session besides the exit commands: the two signals start()
\* listens to, and the end of the input.
ShutdownCauses == {"SIGINT", "SIGTERM", "end of input"}

\* A shutdown that exits without clearing the registry.
ReplCloseUncleared(cause) ==
  /\ phase = "repl"
  /\ Exits(0)
  /\ inflight' = {}
  /\ ev' = [kind |-> "close", cause |-> cause, printed |-> <<>>, abandoned |-> inflight]
  /\ UNCHANGED <<files, loadRoot, loadResult, wrapperConfig, currentProfile, currentFormat,
                 linesLeft, nextHandle, calls, edits, failedFor>>
  /\ UNCHANGED <<clientPool, configCache, retired, handedOut>>

\* A signal arrives (gracefulShutdown: disconnect(), whose rl.close() runs the
\* 'close' handler) or the input ends (the 'close' handler alone): clearClients()
\* and process.exit(0), whatever is still awaited.
ReplClose(cause) ==
  /\ phase = "repl"
  /\ Exits(0)
  /\ Cleared
  /\ inflight' = {}
  /\ ev' = [kind |-> "close", cause |-> cause,
            printed |-> IF cause = "end of input" THEN <<>>
                        ELSE <<Log(<<Lit("\nClosing Sentry connections...")>>)>>,
            abandoned |-> inflight]
  /\ UNCHANGED <<files, loadRoot, loadResult, wrapperConfig, currentProfile, currentFormat,
                 linesLeft, nextHandle, calls, edits, failedFor>>

(***************************************************************************)
(* One invocation: the program is started with drawn arguments, or the     *)
(* runner is called by a host, and an interactive session is given lines.  *)
(***************************************************************************)
AllParams ==
  <<<<"projectSlug", "my-project">>, <<"issueId", "123">>, <<"eventId", "abc">>,
    <<"tagKey", "browser">>>>
ParamKeys == {AllParams[i][1] : i \in 1..Len(AllParams)}

\* Every set of the four parameters; the full set with an override, with an
\* empty value, with a repeated key; null; texts that are not JSON.
ArgTexts ==
  {<<>>}
    \cup {JsonStringify(SelectSeq(AllParams, LAMBDA p : p[1] \in S)) : S \in SUBSET ParamKeys}
    \cup {JsonStringify(AllParams \o <<o>>) :
            o \in {<<"profile", "dev">>, <<"profile", "nope">>, <<"format", "toon">>,
                   <<"issueId", "">>}}
    \cup {JsonStringify(<<<<"issueId", "">>, <<"eventId", "abc">>>>),
          <<"null">>, <<"invalid-json">>, <<"{", "issueId">>}

CommandWords == CommandSet \cup {"unknown-command", "profile"}

Lines ==
  {InputLine(c, a) : c \in CommandWords, a \in ArgTexts}
    \cup {InputLine(w, <<>>) :
            w \in {"", "exit", "quit", "q", "help", "?", "commands", "clear", "profiles"}}
    \cup {InputLine("profile", <<"dev">>), InputLine("profile", <<"nope">>),
          InputLine("format", <<"toon">>), InputLine("format", <<"xml">>),
          InputLine("get-issue", Flag("h"))}

Argvs ==
  {<<>>}
    \cup {<<f>> : f \in VersionFlags \cup {CommandsFlag} \cup HelpFlags}
    \cup {<<<<c>>, Flag("h")>> : c \in CommandWords}
    \cup {<<c, Flag("h")>> :
            c \in VersionFlags \cup HelpFlags \cup {CommandsFlag, <<>>, Flag("x")}}
    \cup {<<<<"get-issue">>, Flag("h"), JsonStringify(AllParams)>>,
          <<<<"get-issue">>, JsonStringify(AllParams), Flag("h")>>,
          <<<<"unknown-command">>, JsonStringify(AllParams), Flag("h")>>,
          <<Flag("x")>>, <<Flag("x"), <<"get-issue">>>>, <<<<>>>>}
    \cup {<<<<c>>>> : c \in CommandWords}
    \cup {<<<<c>>, a>> : c \in CommandWords, a \in ArgTexts \ {<<>>}}
    \cup {<<<<"get-issue">>, JsonStringify(AllParams), f>> : f \in VersionFlags}
    \cup {<<<<"unknown-command">>, Flag("-version")>>,
          <<<<"list-org-issues">>, Flag("-verbose"), JsonStringify(AllParams)>>}

NoProfilesDocument == Framed(<<Line("top", "profiles", Lit("{}"))>>)

InitDispatch ==
  /\ \/ \E doc \in {SampleDocument, NoProfilesDocument} :
          files = (ConfigPath(ProjectRoot) :> doc)
     \/ files = (PathJoin(ProjectRoot, ".claude", ConnectorFileName) :> SampleDocument)
  /\ loadRoot = ""
  /\ loadResult = Return("none")
  /\ phase = "boot"
  /\ RegistryInit

NextDispatch ==
  \/ \E args \in Argvs : StartInformed(args)
  \/ \E args \in Argvs : StartHeadless(args)
  \/ \E args \in Argvs : StartInteractive(args)
  \/ \E command \in CommandWords, arg \in ArgTexts : RunnerDirect(command, arg)
  \/ \E task \in inflight, transport \in TransportOutcomes, runnerExits \in BOOLEAN :
       HeadlessFinish(task, transport, runnerExits)
  \/ \E line \in Lines : ReplLine(line)
  \/ \E task \in inflight, transport \in TransportOutcomes : ReplFinish(task, transport)
  \/ \E cause \in ShutdownCauses : ReplClose(cause)

SpecDispatch == InitDispatch /\ [][NextDispatch]_vars

(***************************************************************************)
(* One interactive session: connect(), then lines that are entered while   *)
(* the requests of earlier lines may still be awaited.  readline emits a   *)
(* 'line' event for every line it reads; the listener of start() is an     *)
(* async function, and nothing waits for the promise it returns.           *)
(***************************************************************************)
MaxSessionLines == 3

\* One declared profile, and defaults that name nothing the code supports.
GhostDefaultsDocument ==
  Framed(<<Line("top", "profiles", <<>>), Line("name", "prod", <<>>), AuthTokenLine,
           OrganizationLine, Line("top", "defaultProfile", Lit("ghost")),
           Line("top", "defaultFormat", Lit("xml"))>>)

ConnectDocuments ==
  {SampleDocument, GhostDefaultsDocument, NoProfilesDocument, UnframedDocument}

Overrides == JsonStringify(AllParams \o <<<<"profile", "dev">>, <<"format", "toon">>>>)

SessionLines ==
  {InputLine(c, a) : c \in {"list-org-issues", "test-connection", "unknown-command"},
                     a \in {<<>>, Overrides}}
    \cup {InputLine("get-issue", <<>>)}
    \cup {InputLine("profile", <<n>>) : n \in {"dev", "nope", "constructor"}}
    \cup {InputLine("format", <<f>>) : f \in {"toon", "xml"}}
    \cup {InputLine(w, <<>>) : w \in {"", "help", "commands", "profiles", "clear", "exit"}}

InitSession ==
  /\ \E doc \in ConnectDocuments : files = (ConfigPath(ProjectRoot) :> doc)
  /\ loadRoot = ""
  /\ loadResult = Return("none")
  /\ phase = "boot"
  /\ wrapperConfig = NotLoaded
  /\ currentProfile = ""
  /\ currentFormat = "json"
  /\ exitCode = NotExited
  /\ linesLeft = MaxSessionLines
  /\ clientPool = EmptyPool
  /\ configCache \in {NoCache, EmptyCache}
  /\ nextHandle = 1
  /\ inflight = {}
  /\ calls = 0
  /\ edits = 0
  /\ ev = [kind |-> "none"]
  /\ handedOut = {}
  /\ retired = {}
  /\ failedFor = {}

NextSession ==
  \/ StartInteractive(<<>>)
  \/ \E line \in SessionLines : ReplLine(line)
  \/ \E task \in inflight, transport \in TransportOutcomes : ReplFinish(task, transport)
  \/ \E cause \in ShutdownCauses : ReplClose(cause)

SpecSession == InitSession /\ [][NextSession]_vars

\* The required parameters as the thirteen commands document them.
ClaimedRequired(command) ==
  CASE command = "list-project-events" -> <<"projectSlug">>
    [] command = "list-project-issues" -> <<"projectSlug">>
    [] command = "get-issue" -> <<"issueId">>
    [] command = "update-issue" -> <<"issueId">>
    [] command = "list-issue-events" -> <<"issueId">>
    [] command = "list-issue-hashes" -> <<"issueId">>
    [] command = "get-event" -> <<"projectSlug", "eventId">>
    [] command = "debug-source-maps" -> <<"projectSlug", "eventId">>
    [] command = "get-issue-event" -> <<"issueId", "eventId">>
    [] command = "get-tag-details" -> <<"issueId", "tagKey">>
    [] command = "list-tag-values" -> <<"issueId", "tagKey">>
    [] command = "list-org-issues" -> <<>>
    [] command = "test-connection" -> <<>>

ClaimedMessage(command) ==
  LET required == ClaimedRequired(command) IN
  IF Len(required) = 1
    THEN <<Lit("ERROR: \""), Lit(required[1]), Lit("\" parameter is required")>>
    ELSE <<Lit("ERROR: \""), Lit(required[1]), Lit("\" and \""), Lit(required[2]),
           Lit("\" parameters are required")>>

\* The argument is absent or the text of a JSON object.
ParameterSet(arg) == ~ParseArgs(arg).threw /\ ParseArgs(arg).value.kind = "object"

\* The parameter set lacks a parameter the command requires.
LacksRequired(command, arg) ==
  /\ command \in CommandSet
  /\ ParameterSet(arg)
  /\ \E i \in 1..Len(ClaimedRequired(command)) :
       Falsy(Member(ParseArgs(arg).value, ClaimedRequired(command)[i]))

\* The line is not one the session answers itself: it goes to runCommand.
ReachesRunCommand(line) ==
  /\ line.command # ""
  /\ line.arg = <<>> =>
       line.command \notin {"exit", "quit", "q", "help", "?", "commands", "clear", "profiles"}
  /\ line.arg # <<>> => line.command \notin {"profile", "format"}
  /\ line.arg # Flag("h")

ConfigLoads == ~LoadConfig(files, ProjectRoot).threw

Untouched == ~ev.resolved /\ ~ev.remote

C6_UnknownCommandError ==
  /\ (/\ ev.kind = "headless"
      /\ ev.command \notin CommandSet
      /\ ConfigLoads
      /\ ParameterSet(ev.arg)) =>
       /\ ev.printed = <<Error(<<Lit("Unknown command: "), Lit(ev.command)>>)>>
       /\ Untouched
       /\ exitCode = 1
  /\ (/\ ev.kind = "line"
      /\ ReachesRunCommand(ev.line)
      /\ ev.line.command \notin CommandSet
      /\ currentProfile # ""
      /\ ParameterSet(ev.line.arg)) =>
       /\ ev.printed = <<Error(<<Lit("Unknown command: "), Lit(ev.line.command)>>)>>
       /\ Untouched

\* C6 (amended): a command name outside the thirteen never resolves a client or
\* makes a remote call.  The runner, when the configuration loads and the
\* argument parses, prints exactly 'Unknown command: <name>' and exits with 1;
\* the session, when it has a current profile and the argument parses, prints
\* 'Unknown command: <name>. Type "commands" to see available commands.' and
\* prompts again.
C6_UnknownCommandErrorPerMode ==
  /\ ev.kind = "headless" /\ ev.command \notin CommandSet =>
       /\ Untouched
       /\ exitCode = 1
       /\ ConfigLoads /\ ParameterSet(ev.arg) =>
            ev.printed = <<Error(<<Lit("Unknown command: "), Lit(ev.command)>>)>>
  /\ ev.kind = "line" /\ ReachesRunCommand(ev.line) /\ ev.line.command \notin CommandSet =>
       /\ Untouched
       /\ ev.prompted
       /\ currentProfile # "" /\ ParameterSet(ev.line.arg) =>
            ev.printed =
              <<Error(<<Lit("Unknown command: "), Lit(ev.line.command),
                        Lit(". Type \"commands\" to see available commands.")>>)>>

\* The session was given a command name outside the thirteen and said so.
C6_Witness ==
  /\ ev.kind = "line"
  /\ ev.line.command = "unknown-command"
  /\ currentProfile # ""
  /\ ev.printed # <<>>
  /\ ev.printed[1].text[1] = Lit("Unknown command: ")

\* The headless execution printed the result of a successful operation.
Succeeded == ev.remote /\ ev.printed # <<>> /\ ev.printed[1].stream = "out"

\* C7: a headless execution of a known command, once its outcome is there, has
\* ended the process with 0 if the operation succeeded and with 1 otherwise; a
\* failure to parse the JSON argument prints 'Error executing command:' first.
C7_HeadlessExitCode ==
  ev.kind = "headless" /\ ev.caller = "cli" /\ phase # "headless" =>
    /\ phase = "exited"
    /\ exitCode = (IF Succeeded THEN 0 ELSE 1)
    /\ ConfigLoads /\ ParseArgs(ev.arg).threw =>
         ev.printed[1].text[1] = Lit("Error executing command:")

\* A headless execution succeeded and the process exited with 0.
C7_Witness ==
  /\ ev.kind = "headless"
  /\ ev.caller = "cli"
  /\ phase = "exited"
  /\ Succeeded
  /\ exitCode = 0

(***************************************************************************)
(* Claims about parseArguments, checked under SpecDispatch.                *)
(***************************************************************************)
\* What was printed is the catalog: a heading and a line for each command.
ShowsCatalog(printed) ==
  /\ Len(printed) = 14
  /\ \A i \in 1..13 : printed[i + 1].stream = "out" /\ printed[i + 1].text[1] = <<Commands[i]>>

\* What was printed is the detail of command c.
ShowsDetail(printed, c) ==
  /\ Len(printed) = 1
  /\ printed[1].stream = "out"
  /\ printed[1].text[1] = c
  /\ Contains(printed[1].text, <<"detail", c[1]>>)

\* What was printed is a notice followed by the catalog.
ShowsNoticeAndCatalog(printed, notice) ==
  /\ Len(printed) = 15
  /\ printed[1] = [text |-> notice, stream |-> "out"]
  /\ ShowsCatalog(Tail(printed))

\* The process was started with ev.args and this is what it did first.
Started == ev.kind \in {"arguments", "connect"} \/ (ev.kind = "headless" /\ ev.args # <<>>)

\* Nothing was executed: no client resolved, no operation called.
NothingExecuted == calls = 0 /\ inflight = {} /\ handedOut = {} /\ failedFor = {}

KnownCommand(c) == Len(c) = 1 /\ c[1] \in CommandSet

\* C17 as stated: started with any first argument c immediately followed by "-h",
\* the program prints the detail of c, or, c being no known command, an "Unknown
\* command" notice and the catalog; it exits with 0 and never executes c.
C17_CommandHelp ==
  (Started /\ Len(ev.args) >= 2 /\ ev.args[2] = <<"-", "h">>) =>
    /\ ev.kind = "arguments"
    /\ phase = "exited"
    /\ exitCode = 0
    /\ NothingExecuted
    /\ IF KnownCommand(ev.args[1]) THEN ShowsDetail(ev.printed, ev.args[1])
       ELSE ShowsNoticeAndCatalog(ev.printed, <<<<"Unknown command: ">>, ev.args[1]>>)

\* C17: started with a first argument c immediately followed by "-h", the program
\* exits with 0 and never executes c.  It prints the version when c is "--version"
\* or "-v", the catalog when c is "--commands", "Please provide a command name."
\* and the catalog when c is empty, the detail of c when c is a known command, and
\* otherwise the notice "Unknown command: <c>" and the catalog.
C17_CommandHelpAfterFlags ==
  (Started /\ Len(ev.args) >= 2 /\ ev.args[2] = <<"-", "h">>) =>
    LET c == ev.args[1] IN
    /\ ev.kind = "arguments"
    /\ phase = "exited"
    /\ exitCode = 0
    /\ NothingExecuted
    /\ IF c \in {<<"-", "-version">>, <<"-", "v">>}
         THEN ev.printed = <<[text |-> <<<<"version">>>>, stream |-> "out"]>>
       ELSE IF c = <<"-", "-commands">> THEN ShowsCatalog(ev.printed)
       ELSE IF c = <<>>
         THEN ShowsNoticeAndCatalog(ev.printed, <<<<"Please provide a command name.">>>>)
       ELSE IF KnownCommand(c) THEN ShowsDetail(ev.printed, c)
       ELSE ShowsNoticeAndCatalog(ev.printed, <<<<"Unknown command: ">>, c>>)

\* C17's cases: help was asked for a known command and for an unknown one.
C17_Witness ==
  /\ ev.kind = "arguments"
  /\ ev.args = <<<<"unknown-command">>, <<"-", "h">>>>
  /\ ShowsNoticeAndCatalog(ev.printed, <<<<"Unknown command: ">>, <<"unknown-command">>>>)
  /\ exitCode = 0

\* The argument list has no informational flag and does not begin with a command.
NeitherFlagNorCommand(args) ==
  /\ \A i \in 1..Len(args) :
       args[i] \notin {<<"-", "-version">>, <<"-", "v">>, <<"-", "-commands">>,
                       <<"-", "-help">>, <<"-", "h">>}
  /\ args # <<>> => ~KnownCommand(args[1])

\* C18: parseArguments returns false, so that the interactive session is started,
\* exactly when the argument list holds none of --version, -v, --commands, --help,
\* -h and its first argument is no known command; it has then printed nothing,
\* has not exited and has executed no command (the session's connect() is what
\* runs next, and exits with 1 when the configuration does not load).
C18_InteractiveExactly ==
  Started =>
    /\ ev.kind = "connect" <=> NeitherFlagNorCommand(ev.args)
    /\ ev.kind = "connect" =>
         /\ NothingExecuted
         /\ \/ phase = "repl" /\ exitCode = NotExited
            \/ /\ phase = "exited"
               /\ exitCode = 1
               /\ ev.printed[1].text[1] = <<"Failed to load configuration:">>

\* C18's case: an unrecognized command name starts the session.
C18_Witness ==
  /\ ev.kind = "connect"
  /\ ev.args = <<<<"unknown-command">>>>
  /\ phase = "repl"

InformationalFlags == VersionFlags \cup {CommandsFlag} \cup HelpFlags

HasInformationalFlag(args) == \E i \in 1..Len(args) : args[i] \in InformationalFlags

\* The version, the usage text, the catalog, the detail of a command, or a
\* notice followed by the catalog.
Informational(printed) ==
  \/ printed = <<Log(<<Lit("version")>>)>>
  \/ printed = <<Log(<<Lit("usage")>>)>>
  \/ ShowsCatalog(printed)
  \/ \E c \in CommandSet : ShowsDetail(printed, <<c>>)
  \/ Len(printed) = 15 /\ printed[1].stream = "out" /\ ShowsCatalog(Tail(printed))

InformedAndExited ==
  /\ ev.kind = "arguments"
  /\ phase = "exited"
  /\ exitCode = 0
  /\ NothingExecuted
  /\ Informational(ev.printed)

\* The first argument is a known command and the second is not "-h".
RunsFirst(args) == KnownCommand(args[1]) /\ ~(Len(args) >= 2 /\ args[2] = Flag("h"))

\* C25 as stated: started with an argument list that holds --version, -v,
\* --commands, --help or -h at any position, the program prints informational
\* output and exits with 0 without executing a command.
C25_FlagsInform == Started /\ HasInformationalFlag(ev.args) => InformedAndExited

\* C25: started with an argument list that holds --version, -v, --commands,
\* --help or -h at some position, the program prints informational output and
\* exits with 0 without executing a command, unless the first argument is a
\* known command that "-h" does not follow immediately: then that command is
\* executed through runCommand whatever flags come after it.
C25_FlagsInformUnlessCommandFirst ==
  Started /\ HasInformationalFlag(ev.args) =>
    IF RunsFirst(ev.args)
      THEN ev.kind = "headless" /\ ev.caller = "cli" /\ ev.command = ev.args[1][1]
      ELSE InformedAndExited

\* A flag that is not the first argument is honoured.
C25_Witness ==
  /\ ev.kind = "arguments"
  /\ ev.args = <<<<"unknown-command">>, Flag("-version")>>
  /\ ev.printed = <<Log(<<Lit("version")>>)>>
  /\ exitCode = 0

ExitLine(line) == line.arg = <<>> /\ line.command \in {"exit", "quit", "q"}

\* C20: every input line other than exit, quit and q leaves the process alive and
\* is answered by exactly one prompt: at once when the line makes no remote call
\* (an empty line, a special command, a help request, a missing required
\* parameter, an unknown command, malformed JSON arguments, a client that cannot
\* be resolved), and otherwise when its remote call has ended, in success or in
\* failure, and the result has been shown.
C20_LineKeepsSessionAndPrompts ==
  /\ []((ev.kind = "line" /\ ~ExitLine(ev.line)) =>
          /\ phase = "repl"
          /\ exitCode = -1
          /\ ev.prompted <=> ~ev.remote)
  /\ [](ev.kind = "shown" => (phase = "repl" /\ exitCode = -1 /\ ev.prompted))
  /\ [][(phase = "repl" /\ linesLeft' = linesLeft - 1 /\ ~ExitLine(ev'.line)) =>
          IF ev'.prompted THEN inflight' = inflight
          ELSE \E task \in inflight' \ inflight :
                 inflight' = inflight \cup {task} /\ task.caller = "repl"]_vars
  /\ [][(phase = "repl" /\ phase' = "repl" /\ linesLeft' = linesLeft /\ inflight' # inflight) =>
          /\ ev'.kind = "shown"
          /\ ev'.prompted
          /\ \E task \in inflight : inflight' = inflight \ {task}]_vars

\* C20's case: the remote call of a line failed, the error was shown, the session
\* prompts again.
C20_Witness ==
  /\ ev.kind = "shown"
  /\ ev.transport = "network error"
  /\ ev.printed[1].stream = "err"
  /\ ev.prompted
  /\ phase = "repl"
  /\ linesLeft = 0

(***************************************************************************)
(* The interactive session: connect, the switches, the commands in flight. *)
(***************************************************************************)
\* getClient has been asked for a handle, or a remote call has been made.
SomethingDispatched ==
  calls > 0 \/ inflight # {} \/ handedOut # {} \/ retired # {} \/ failedFor # {}

\* C21: when loadConfig throws at connect, the error is caught, 'Failed to load
\* configuration:' is printed with its message and the process exits with code
\* 1 without ever reading a line; in every state of a session, an operation has
\* been dispatched only if a configuration was loaded and a current profile is
\* set, and a line that is given to runCommand without both is answered
\* 'Configuration not loaded!'.
C21_NoDispatchWithoutConfiguration ==
  /\ ev.kind = "connect" /\ LoadConfig(files, ProjectRoot).threw =>
       /\ phase = "exited"
       /\ exitCode = ExitFailure
       /\ ev.printed = <<Error(<<Lit("Failed to load configuration:")>>
                                 \o LoadConfig(files, ProjectRoot).message)>>
       /\ ~ev.prompted
  /\ phase = "repl" => wrapperConfig.state = "loaded"
  /\ wrapperConfig.state # "loaded" => linesLeft = MaxSessionLines
  /\ SomethingDispatched => wrapperConfig.state = "loaded"
  /\ ev.kind = "line" /\ ev.resolved => currentProfile # Undefined
  /\ ev.kind = "line" /\ currentProfile = Undefined /\ ev.line.command \in CommandSet
       /\ ev.line.arg # Flag("h") =>
       ev.printed = <<Log(<<Lit("Configuration not loaded!")>>)>> /\ ~ev.resolved

\* connect() has failed on a document without its markers.
C21_Witness ==
  /\ ev.kind = "connect"
  /\ phase = "exited"
  /\ exitCode = ExitFailure
  /\ wrapperConfig = NotLoaded
  /\ ev.printed[1].stream = "err"

\* The step handles one input line.
LineStep == phase = "repl" /\ linesLeft' = linesLeft - 1

\* The task the step has dispatched.
Dispatched == CHOOSE t \in inflight' : t.call = calls'

\* C22: in a session, 'profile <name>' sets the current profile to <name> if
\* and only if <name> is a profile of the configuration loaded at connect;
\* otherwise the current profile is unchanged and an error that lists the
\* available profiles is printed.  A command without a profile of its own is
\* dispatched with the current profile.
C22_ProfileSwitchIffConfigured ==
  [][LineStep =>
       /\ ev'.line.command = "profile" /\ ev'.line.arg # <<>> =>
            IF ProfileIndex(wrapperConfig.value, ev'.line.arg[1]) # 0
              THEN currentProfile' = ev'.line.arg[1]
              ELSE /\ currentProfile' = currentProfile
                   /\ ev'.printed =
                        <<Error(<<Lit("ERROR: Profile \""), ev'.line.arg,
                                  Lit("\" not found. Available: "),
                                  AvailableProfiles(wrapperConfig)>>)>>
       /\ ev'.remote /\ ev'.line.arg = <<>> =>
            Dispatched.client.profile = currentProfile]_vars

\* The step ends the remote call of a command of the session.
FinishStep == phase = "repl" /\ phase' = "repl" /\ inflight' # inflight /\ inflight' \subseteq inflight

\* C23: an invocation never retries.  A remote call is made only by the line
\* that dispatches a command, one call for the command; when a remote call ends
\* in a failure, its task leaves the requests in flight for good, no remote call
\* is made by that step, and what is printed for the command is that failure.
C23_NeverRetries ==
  [][/\ calls' # calls \/ ~(inflight' \subseteq inflight) =>
          /\ LineStep
          /\ calls' = calls + 1
          /\ inflight' = inflight \cup {Dispatched}
          /\ \A t \in inflight : t.call < calls'
     /\ FinishStep =>
          /\ calls' = calls
          /\ inflight' = inflight \ {ev'.task}
          /\ ev'.task \in inflight
          /\ ev'.kind = "shown"
          /\ ev'.transport # "ok" =>
               /\ ev'.printed = <<Error(<<Lit("\n"), Lit("ERROR: "), Lit(ev'.transport)>>)>>
               /\ ev'.prompted
               /\ clientPool' = clientPool /\ nextHandle' = nextHandle]_vars

\* The request of the last command dispatched has failed and its failure is shown.
C23_Witness ==
  /\ phase = "repl"
  /\ ev.kind = "shown"
  /\ ev.transport = "non-2xx response"
  /\ ev.task.call = calls
  /\ \A t \in inflight : t.call # ev.task.call

\* C24: once getClient(p) has succeeded, the registry does not read the
\* configuration for p again: while p has an entry, every getClient(p) returns
\* that entry, the handle with the options resolved when it was constructed,
\* and leaves the registry as it is, whatever has become of the configuration
\* file; an entry is replaced or dropped by no step but a clear.
C24_PooledHandleOutlivesConfiguration ==
  [][/\ calls' = calls + 1 /\ ev'.profile \in DOMAIN clientPool =>
          /\ ~ev'.threw
          /\ ev'.client = clientPool[ev'.profile]
          /\ clientPool' = clientPool
          /\ configCache' = configCache
          /\ nextHandle' = nextHandle
     /\ (\E n \in DOMAIN clientPool :
            n \notin DOMAIN clientPool' \/ clientPool'[n] # clientPool[n])
          => ev'.kind = "clear" /\ clientPool' = EmptyPool]_vars

\* getClient returns a handle although the configuration file can no longer be
\* loaded and the registry keeps no configuration: the handle is the pooled one.
C24_Witness ==
  /\ ev.kind = "call"
  /\ ~ev.threw
  /\ edits > 0
  /\ configCache = NoCache
  /\ LoadConfig(files, ProjectRoot).threw
  /\ clientPool[ev.profile] = ev.client

\* C26: the session handles its input lines one at a time: when a line is
\* handled, the request of no earlier line is still awaited, so at most one
\* operation is in flight, and a result is shown while no command entered
\* before its own is still awaited.
C26_OneLineAtATime ==
  /\ Cardinality(inflight) <= 1
  /\ ev.kind = "line" => \A t \in inflight : ev.remote /\ t.call = calls
  /\ ev.kind = "shown" => \A t \in inflight : t.call > ev.task.call

\* What a line's JSON argument sets for `key`, or the session's value.
OverrideOr(line, key, now) ==
  IF Falsy(Member(ParseArgs(line.arg).value, key)) THEN now
  ELSE Member(ParseArgs(line.arg).value, key)

\* A request in flight is the one the step dispatched or was in flight before.
InflightKept == \A t \in inflight' : t \in inflight \/ (LineStep /\ t = Dispatched)

C28_OnlySwitchesChangeSession ==
  /\ [](phase = "repl" => currentFormat \in Formats)
  /\ [][phase = "repl" =>
          /\ currentProfile' # currentProfile =>
               /\ LineStep
               /\ ev'.line.command = "profile"
               /\ ev'.line.arg # <<>>
               /\ ProfileIndex(wrapperConfig.value, ev'.line.arg[1]) # 0
               /\ currentProfile' = ev'.line.arg[1]
          /\ currentFormat' # currentFormat =>
               /\ LineStep
               /\ ev'.line.command = "format"
               /\ ev'.line.arg \in {<<"json">>, <<"toon">>}
               /\ currentFormat' = ev'.line.arg[1]]_vars

\* C29: the defaultProfile of the Configuration loadConfig returned at connect
\* is the name of a profile declared in it, and the current profile of the
\* session names a profile of that Configuration in every state.
C29_CurrentProfileConfigured ==
  wrapperConfig.state = "loaded" =>
    /\ ProfileIndex(wrapperConfig.value, wrapperConfig.value.defaultProfile) # 0
    /\ ProfileIndex(wrapperConfig.value, currentProfile) # 0

(***************************************************************************)
(* The loader on its own: a file system is drawn, loadConfig is called.    *)
(***************************************************************************)
InitLoad ==
  /\ \/ \E d \in Documents : files = (ConfigPath("/proj") :> d)
     \/ \E present \in SUBSET Paths : files = [path \in present |-> SampleDocument]
  /\ loadRoot = ""
  /\ loadResult = Return("none")
  /\ phase = "loader"
  /\ RegistryInit

CallLoadConfig(projectRoot) ==
  /\ loadRoot = ""
  /\ loadRoot' = projectRoot
  /\ loadResult' = LoadConfig(files, projectRoot)
  /\ UNCHANGED <<files, registryVars>>

\* The names getSentryClientOptions is asked for.
OptionNames == ProfileNames \cup {"nope", "constructor"}

\* getSentryClientOptions(config, profileName) on the Configuration just loaded.
CallGetSentryClientOptions(profileName) ==
  /\ loadRoot # ""
  /\ ~loadResult.threw
  /\ ev.kind = "none"
  /\ ev' = [kind |-> "options", profileName |-> profileName,
            result |-> GetSentryClientOptions(loadResult.value, profileName)]
  /\ UNCHANGED <<files, loadRoot, loadResult, phase, cliVars, clientPool, configCache,
                 nextHandle, inflight, calls, edits, handedOut, retired, failedFor>>

NextLoad ==
  \/ \E projectRoot \in ProjectRoots : CallLoadConfig(projectRoot)
  \/ \E profileName \in OptionNames : CallGetSentryClientOptions(profileName)

SpecLoad == InitLoad /\ [][NextLoad]_vars

(***************************************************************************)
(* Claims about the loader, checked under SpecLoad.                        *)
(***************************************************************************)
\* The header loadConfig parses out of the document at the conventional path.
LoadedHeaderLines ==
  YamlLines(Frontmatter(files[PathJoin(loadRoot, ".claude", "sentry-config.local.md")]))

C9_ConnectorDocumentLoaded ==
  LET path == PathJoin(loadRoot, ".claude", "sentry-connector.local.md") IN
  (loadRoot # "" /\ path \in DOMAIN files /\ files[path] = SampleDocument) =>
    /\ ~loadResult.threw
    /\ [i \in 1..Len(loadResult.value.profiles) |-> loadResult.value.profiles[i].name]
         = <<"prod", "dev">>
    /\ loadResult.value.defaultProfile = "prod"
    /\ loadResult.value.defaultFormat = "json"

\* C10: for every configuration document in which some declared profile lacks
\* authToken or organization (a profile declared with no body at all included),
\* loadConfig throws an error whose message contains "missing required field" and
\* names both that profile and the missing field.
C10_MissingFieldReported ==
  LET path == PathJoin(loadRoot, ".claude", "sentry-config.local.md")
      declared == DeclaredProfiles(LoadedHeaderLines)
      Lacks(profile, field) == profile.kind # "map" \/ profile[field] = <<>>
  IN
  (/\ loadRoot # ""
   /\ path \in DOMAIN files
   /\ ClosingLine(files[path]) # 0
   /\ YamlWellFormed(LoadedHeaderLines)
   /\ \E i \in 1..Len(declared) :
        Lacks(declared[i], "authToken") \/ Lacks(declared[i], "organization"))
  =>
    /\ loadResult.threw
    /\ Contains(loadResult.message, Lit("\" missing required field: "))
    /\ \E i \in 1..Len(declared), field \in {"authToken", "organization"} :
         /\ Lacks(declared[i], field)
         /\ Contains(loadResult.message, Lit(declared[i].name))
         /\ Contains(loadResult.message, Lit(field))

\* C11: for every configuration document in which some profile declares a baseUrl
\* that starts with neither "http://" nor "https://" (every profile having its
\* authToken and organization), loadConfig throws an error that contains
\* "baseUrl must start with http:// or https://" and names such a profile; and
\* every baseUrl of a returned Configuration starts with one of the two prefixes.
C11_BadBaseUrlReported ==
  LET path == PathJoin(loadRoot, ".claude", "sentry-config.local.md")
      declared == DeclaredProfiles(LoadedHeaderLines)
      Complete(profile) ==
        profile.kind = "map" /\ profile.authToken # <<>> /\ profile.organization # <<>>
      BadUrl(profile) ==
        /\ profile.baseUrl # <<>>
        /\ ~(Len(profile.baseUrl) = 2 /\ profile.baseUrl[1] \in {"http://", "https://"})
  IN
  /\ (/\ loadRoot # ""
      /\ path \in DOMAIN files
      /\ ClosingLine(files[path]) # 0
      /\ YamlWellFormed(LoadedHeaderLines)
      /\ ProfilesKind(LoadedHeaderLines) = "map"
      /\ \A i \in 1..Len(declared) : Complete(declared[i])
      /\ \E i \in 1..Len(declared) : BadUrl(declared[i]))
     =>
       /\ loadResult.threw
       /\ Contains(loadResult.message, Lit("\" baseUrl must start with http:// or https://"))
       /\ \E i \in 1..Len(declared) :
            BadUrl(declared[i]) /\ Contains(loadResult.message, Lit(declared[i].name))
  /\ (loadRoot # "" /\ ~loadResult.threw) =>
       \A i \in 1..Len(loadResult.value.profiles) :
         LET url == loadResult.value.profiles[i].baseUrl IN
         url # <<>> => url[1] \in {"http://", "https://"}

C13_MissingProfilesReported ==
  LET path == PathJoin(loadRoot, ".claude", "sentry-config.local.md") IN
  (/\ loadRoot # ""
   /\ path \in DOMAIN files
   /\ ClosingLine(files[path]) # 0
   /\ YamlWellFormed(LoadedHeaderLines))
  =>
    LET ls == LoadedHeaderLines
        HasKey == \E i \in 1..Len(ls) : ls[i].t = "top" /\ ls[i].k = "profiles"
        value == ls[CHOOSE i \in 1..Len(ls) : ls[i].t = "top" /\ ls[i].k = "profiles"].v
        Nested == \E i \in 1..Len(ls) : ls[i].t = "name"
        Mapping == HasKey /\ (value = <<"{}">> \/ (value = <<>> /\ Nested))
    IN
    /\ ~Mapping =>
         /\ loadResult.threw
         /\ loadResult.message = <<<<"Configuration must include \"profiles\" object">>>>
    /\ (HasKey /\ value = <<"{}">>) =>
         /\ ~loadResult.threw
         /\ loadResult.value.profiles = <<>>

\* C14: for every configuration document that loadConfig accepts and that declares
\* at least one profile, the defaultProfile of the returned Configuration is the
\* document's defaultProfile when it sets one, and otherwise the name of the
\* profile the document declares first.
C14_DefaultProfileFirstDeclared ==
  (loadRoot # "" /\ ~loadResult.threw) =>
    LET ls == LoadedHeaderLines
        Sets == \E i \in 1..Len(ls) :
                  ls[i].t = "top" /\ ls[i].k = "defaultProfile" /\ ls[i].v # <<>>
        explicit == ls[CHOOSE i \in 1..Len(ls) : ls[i].t = "top" /\ ls[i].k = "defaultProfile"].v
        FirstName(i) == ls[i].t = "name" /\ \A j \in 1..(i - 1) : ls[j].t # "name"
    IN
    /\ Sets => loadResult.value.defaultProfile = explicit[1]
    /\ ~Sets => \A i \in 1..Len(ls) : FirstName(i) => loadResult.value.defaultProfile = ls[i].k

\* C15: every Configuration loadConfig returns has a defaultFormat that is "json"
\* or "toon": "json" when the document does not set one, and otherwise the value
\* the document sets.
C15_DefaultFormatSupported ==
  (loadRoot # "" /\ ~loadResult.threw) =>
    LET ls == LoadedHeaderLines
        Sets == \E i \in 1..Len(ls) :
                  ls[i].t = "top" /\ ls[i].k = "defaultFormat" /\ ls[i].v # <<>>
        explicit == ls[CHOOSE i \in 1..Len(ls) : ls[i].t = "top" /\ ls[i].k = "defaultFormat"].v
    IN
    /\ loadResult.value.defaultFormat \in {"json", "toon"}
    /\ Sets => loadResult.value.defaultFormat = explicit[1]
    /\ ~Sets => loadResult.value.defaultFormat = "json"

\* C16: getSentryClientOptions(config, name) returns, when name is a profile of
\* config, that profile's authToken and organization and its baseUrl when it has
\* one, "https://sentry.io/api/0" otherwise; when name is no profile of config it
\* throws 'Profile "<name>" not found. Available profiles: ...' listing every
\* profile name of config.
C16_ClientOptionsTotal ==
  ev.kind = "options" =>
    LET profiles == loadResult.value.profiles
        name == ev.profileName
        Declared == \E i \in 1..Len(profiles) : profiles[i].name = name
        profile == profiles[CHOOSE i \in 1..Len(profiles) : profiles[i].name = name]
    IN
    /\ Declared =>
         /\ ~ev.result.threw
         /\ ev.result.value.authToken = profile.authToken
         /\ ev.result.value.organization = profile.organization
         /\ ev.result.value.baseUrl =
              IF profile.baseUrl # <<>> THEN profile.baseUrl
              ELSE <<"https://", "sentry.io/api/0">>
    /\ ~Declared =>
         /\ ev.result.threw
         /\ Len(ev.result.message) = 4
         /\ ev.result.message[1] = <<"Profile \"">>
         /\ ev.result.message[2] = <<name>>
         /\ ev.result.message[3] = <<"\" not found. Available profiles: ">>
         /\ {ev.result.message[4][i] : i \in 1..Len(ev.result.message[4])}
              = {profiles[i].name : i \in 1..Len(profiles)}

\* The defects the claims about validation speak of, in the order of C30.
DefectKinds == <<"authToken", "organization", "baseUrl">>

HasDefect(profile, kind) ==
  IF kind = "baseUrl"
    THEN /\ profile.kind = "map"
         /\ profile.baseUrl # <<>>
         /\ ~(Len(profile.baseUrl) = 2 /\ profile.baseUrl[1] \in {HttpScheme, HttpsScheme})
    ELSE profile.kind # "map" \/ profile[kind] = <<>>

\* C30: when a configuration document has several defects, loadConfig throws
\* one error and returns no Configuration: the error is about the first
\* defective profile in declaration order and, within it, about a missing
\* authToken before a missing organization before a bad baseUrl.
C30_FirstDefectInDeclarationOrder ==
  LET path == PathJoin(loadRoot, ".claude", "sentry-config.local.md")
      declared == DeclaredProfiles(LoadedHeaderLines)
      defects == {d \in (1..Len(declared)) \X (1..Len(DefectKinds)) :
                    HasDefect(declared[d[1]], DefectKinds[d[2]])}
      first == CHOOSE d \in defects :
                 \A e \in defects : d[1] < e[1] \/ (d[1] = e[1] /\ d[2] <= e[2])
  IN
  (/\ loadRoot # ""
   /\ path \in DOMAIN files
   /\ ClosingLine(files[path]) # 0
   /\ YamlWellFormed(LoadedHeaderLines)
   /\ ProfilesKind(LoadedHeaderLines) = "map"
   /\ Cardinality(defects) >= 2)
  =>
    /\ loadResult.threw
    /\ loadResult.message =
         IF DefectKinds[first[2]] = "baseUrl"
           THEN <<Lit("Profile \""), Lit(declared[first[1]].name), BadBaseUrlText>>
           ELSE <<Lit("Profile \""), Lit(declared[first[1]].name), MissingFieldText,
                  Lit(DefectKinds[first[2]])>>

=============================================================================
